---- MODULE Spec2Model ----
(***************************************************************************)
(* State-machine models of the concurrency demonstrations of the           *)
(* repository:                                                             *)
(*   - the fixed-size thread pool          (src/thread_pool.cpp, 14-112)   *)
(*   - the retry sender/receiver algorithm (src/recv_sender.cpp, 150-276)  *)
(*   - the cooperative scheduler (src/unnamed/part_001, recv_sender.cpp)   *)
(*   - the coroutine hand-off scheduler    (src/thread_pool.cpp, 224-418)  *)
(*   - the asynchronous line counter       (src/thread_pool.cpp, 430-460)  *)
(*   - the promise pipeline                (src/pres_prop.cpp)             *)
(* Each component has its own specification (SpecPool, SpecRetry, ...); the*)
(* variables of the other components stay at their initial values.         *)
(***************************************************************************)
EXTENDS Naturals, Integers, Sequences, FiniteSets, TLC

(***************************************************************************)
(* Bounds of the model.                                                    *)
(***************************************************************************)
\* number of worker threads given to the ThreadPool constructor
NumWorkers == 2
\* number of tasks the clients enqueue in one run
MaxTasks == 2
\* largest number of failures of an inner sender that later completes
MaxFail == 4

(***************************************************************************)
(* Thread pool: threads and task bodies.                                   *)
(***************************************************************************)
Workers == 1..NumWorkers
\* threads calling enqueue (main enqueues from one thread; the pool accepts
\* calls from any thread)
Clients == {"c1", "c2"}
Tasks == 1..MaxTasks
NoTask == 0

\* A submitted callable: it returns val, or it raises.
Ret(v) == [kind |-> "ret", val |-> v]
Throw == [kind |-> "throw", val |-> 0]
\* the first lambda of main returns 1 (line 162)
Bodies == {Ret(1), Throw}
NoBody == [kind |-> "none", val |-> 0]

\* calling a callable directly
Call(b) == b.val

\* The shared state of a std::promise / std::future pair.
NoResult == [st |-> "none", val |-> 0]
Pending == [st |-> "pending", val |-> 0]
Value(v) == [st |-> "value", val |-> v]
BrokenPromise == [st |-> "broken_promise", val |-> 0]
\* the shared state holding a captured exception (promise::set_exception)
Error == [st |-> "error", val |-> 0]

VARIABLES
    \* ---- thread pool (src/thread_pool.cpp 14-112)
    m_enabled,   \* bool m_enabled
    m_tasks,     \* std::queue m_tasks, as the sequence of queued task ids
    m_mu,        \* std::mutex m_mu: 0 when free, else the worker holding it
    wpc,         \* position of every worker thread in the loop of run()
    wtask,       \* the task a worker moved out of the queue (local `task`)
    cpc,         \* position of every client thread inside enqueue()
    ctask,       \* the task a client is enqueueing
    opc,         \* position of the owner thread: live, or inside ~ThreadPool
    joinIdx,     \* index of the next worker stop() joins
    nextTask,    \* id given to the next enqueued task
    body,        \* the callable captured by each task
    result,      \* the shared state of each task's promise
    runs,        \* how many times each task's body was invoked
    pushed,      \* history: task ids in the order of m_tasks.push
    popped,      \* history: task ids in the order of m_tasks.pop
    popCount,    \* history: how many times each task was popped
    preStop,     \* history: tasks enqueued before stop() began
    raised,      \* history: tasks whose body raised
    crashed,     \* std::terminate was called (an exception left a thread)
    \* ---- retry (src/recv_sender.cpp 150-276)
    sender,      \* the inner sender wrapped by retry (fail_3 and its kin)
    rcv,         \* the outer receiver: "sink", "plain" (it only records), or
                 \* "raising" (its first set_value raises)
    throwAt,     \* the connect of the inner sender raises at this attempt (0: never)
    s_count,     \* _op::s_.count_, the counter of the wrapped sender
    o_,          \* _op::o_, the optional holding the inner operation state
    rpc,         \* position of the thread that connects and starts the operation
    depth,       \* nested start() frames of inner operations on the stack
    connects,    \* history: inner operations connected
    starts,      \* history: inner operations started
    innerSignals,\* history: completions the inner operations sent
    outerSignals,\* history: completions the outer receiver received
    terminated,  \* the sink called std::terminate
    innerOps,    \* history: the inner operation states built, each alive or destroyed
    retryOp      \* the retry operation state _op: none | alive | destroyed

poolVars == <<m_enabled, m_tasks, m_mu, wpc, wtask, cpc, ctask, opc, joinIdx, nextTask,
              body, result, runs, pushed, popped, popCount, preStop, raised,
              crashed>>

retryVars == <<sender, rcv, throwAt, s_count, o_, rpc, depth, connects, starts,
               innerSignals, outerSignals, terminated, innerOps, retryOp>>


(***************************************************************************)
(* Thread pool, src/thread_pool.cpp.                                       *)
(***************************************************************************)
\* ThreadPool(nthreads): m_enabled(true), m_pool(nthreads), run() starts
\* every worker at the top of its loop.
PoolInit ==
    /\ m_enabled = TRUE
    /\ m_tasks = <<>>
    /\ m_mu = 0
    /\ wpc = [w \in Workers |-> "lock"]
    /\ wtask = [w \in Workers |-> NoTask]
    /\ cpc = [c \in Clients |-> "idle"]
    /\ ctask = [c \in Clients |-> NoTask]
    /\ opc = "live"
    /\ joinIdx = 1
    /\ nextTask = 1
    /\ body = [t \in Tasks |-> NoBody]
    /\ result = [t \in Tasks |-> NoResult]
    /\ runs = [t \in Tasks |-> 0]
    /\ pushed = <<>>
    /\ popped = <<>>
    /\ popCount = [t \in Tasks |-> 0]
    /\ preStop = {}
    /\ raised = {}
    /\ crashed = FALSE

\* the pool object exists and the process runs
PoolAlive == opc # "destroyed" /\ ~crashed

\* workers blocked inside m_cv.wait
Blocked == {w \in Workers : wpc[w] = "blocked"}

\* m_cv.notify_one(): one blocked worker, if any, leaves the wait and
\* goes on to re-acquire the mutex.
NotifyOne(pcs) ==
    IF Blocked = {} THEN {pcs}
    ELSE {[pcs EXCEPT ![w] = "lock"] : w \in Blocked}

\* a stop() that wakes a single waiter (notify_one in place of notify_all)
NotifyAllWakesOne(pcs) ==
    IF Blocked = {} THEN pcs
    ELSE [pcs EXCEPT ![CHOOSE w \in Blocked : \A v \in Blocked : w <= v] = "lock"]

\* m_cv.notify_all(): every blocked worker leaves the wait.
NotifyAll(pcs) == [w \in Workers |-> IF pcs[w] = "blocked" THEN "lock" ELSE pcs[w]]

\* a push at the front of the container (a stack in place of a queue)
QueuePushFront(q, t) == <<t>> \o q

\* m_tasks.push(t): std::queue appends at the back
QueuePush(q, t) == Append(q, t)

\* a front() that yields the newest element
QueueBack(q) == q[Len(q)]

\* m_tasks.front()
QueueFront(q) == Head(q)

\* a worker that reads the front task and leaves it in the queue
QueuePopKeep(q) == q

\* m_tasks.pop(): std::queue removes the front
QueuePop(q) == Tail(q)

\* enqueue, lines 37-45: make the promise, take the future, and push the
\* task under the lock (the lock_guard's scope is one critical section).
EnqueuePush(c, b) ==
    /\ PoolAlive
    /\ cpc[c] = "idle"
    /\ nextTask <= MaxTasks
    /\ m_mu = 0
    /\ body' = [body EXCEPT ![nextTask] = b]
    /\ result' = [result EXCEPT ![nextTask] = Pending]
    /\ m_tasks' = QueuePush(m_tasks, nextTask)
    /\ pushed' = Append(pushed, nextTask)
    /\ nextTask' = nextTask + 1
    /\ cpc' = [cpc EXCEPT ![c] = "notify"]
    /\ ctask' = [ctask EXCEPT ![c] = nextTask]
    /\ UNCHANGED <<m_enabled, m_mu, wpc, wtask, opc, joinIdx, runs, popped,
                   popCount, preStop, crashed,
                   raised>>

\* enqueue, line 47: m_cv.notify_one() after the lock is released
EnqueueNotify(c) ==
    /\ PoolAlive
    /\ cpc[c] = "notify"
    /\ wpc' \in NotifyOne(wpc)
    /\ cpc' = [cpc EXCEPT ![c] = "idle"]
    /\ ctask' = [ctask EXCEPT ![c] = NoTask]
    /\ UNCHANGED <<m_enabled, m_tasks, m_mu, wtask, opc, joinIdx, nextTask, body,
                   result, runs, pushed, popped, popCount, preStop, crashed,
                   raised>>

\* a wait without a predicate: any wake-up lets the worker go on
WaitNoPredicate == TRUE

\* the predicate of m_cv.wait, line 94
WaitPredicate == ~m_enabled \/ m_tasks # <<>>

\* run, lines 93-94: lock m_mu (first time, or when leaving the wait) and
\* evaluate the predicate with the lock held; when it is false the wait
\* releases the lock and blocks in one atomic step, when it is true the wait
\* returns with the lock held.
RunWait(w) ==
    /\ PoolAlive
    /\ wpc[w] = "lock"
    /\ m_mu = 0
    /\ IF WaitPredicate
         THEN /\ m_mu' = w
              /\ wpc' = [wpc EXCEPT ![w] = "check"]
         ELSE /\ m_mu' = 0
              /\ wpc' = [wpc EXCEPT ![w] = "blocked"]
    /\ UNCHANGED <<m_enabled, m_tasks, wtask, cpc, ctask, opc, joinIdx, nextTask, body,
                   result, runs, pushed, popped, popCount, preStop, crashed,
                   raised>>

\* a condition variable may wake a waiter without a notification
RunSpuriousWake(w) ==
    /\ PoolAlive
    /\ wpc[w] = "blocked"
    /\ wpc' = [wpc EXCEPT ![w] = "lock"]
    /\ UNCHANGED <<m_enabled, m_tasks, m_mu, wtask, cpc, ctask, opc, joinIdx, nextTask,
                   body, result, runs, pushed, popped, popCount, preStop, crashed,
                   raised>>

\* run, lines 96-104, with the lock held: leave the loop when the pool is
\* disabled (whatever the queue holds); else assert, move the front task out,
\* pop it and unlock.
RunCheck(w) ==
    /\ PoolAlive
    /\ wpc[w] = "check"
    /\ m_mu = w
    /\ m_mu' = 0
    /\ IF ~m_enabled
         THEN /\ wpc' = [wpc EXCEPT ![w] = "exited"]
              /\ UNCHANGED <<m_tasks, wtask, popped, popCount, crashed>>
         ELSE IF m_tasks = <<>>
         THEN \* assert(!m_tasks.empty()) fails: abort
              /\ crashed' = TRUE
              /\ UNCHANGED <<m_tasks, wtask, popped, popCount, wpc>>
         ELSE /\ wtask' = [wtask EXCEPT ![w] = QueueFront(m_tasks)]
              /\ m_tasks' = QueuePop(m_tasks)
              /\ popped' = Append(popped, QueueFront(m_tasks))
              /\ popCount' = [popCount EXCEPT ![QueueFront(m_tasks)] = @ + 1]
              /\ wpc' = [wpc EXCEPT ![w] = "call"]
              /\ UNCHANGED crashed
    /\ UNCHANGED <<m_enabled, cpc, ctask, opc, joinIdx, nextTask, body, result, runs,
                   pushed, preStop,
                   raised>>

\* execute, lines 61-72: p.set_value(task()).  A body that returns makes the
\* shared state ready with its value.  A body that raises: execute has no
\* handler, the lambda has none, the worker's loop has none, so the exception
\* leaves the thread function and std::terminate ends the process.
execute(w) ==
    IF body[wtask[w]].kind = "ret"
      THEN /\ result' = [result EXCEPT ![wtask[w]] = Value(Call(body[wtask[w]]))]
           /\ wpc' = [wpc EXCEPT ![w] = "lock"]
           /\ wtask' = [wtask EXCEPT ![w] = NoTask]
           /\ UNCHANGED <<crashed, raised>>
      ELSE /\ crashed' = TRUE
           /\ raised' = raised \cup {wtask[w]}
           /\ UNCHANGED <<result, wpc, wtask>>

\* run, line 105: task() is called; the stored lambda calls execute(*p, t),
\* which runs the body to its end (the body touches nothing of the pool).
RunTask(w) ==
    /\ PoolAlive
    /\ wpc[w] = "call"
    /\ runs' = [runs EXCEPT ![wtask[w]] = @ + 1]
    /\ execute(w)
    /\ UNCHANGED <<m_enabled, m_tasks, m_mu, cpc, ctask, opc, joinIdx, nextTask, body,
                   pushed, popped, popCount, preStop>>

\* stop, lines 76-79: m_enabled = false under the lock
StopDisable ==
    /\ PoolAlive
    /\ opc = "live"
    /\ m_mu = 0
    /\ m_enabled' = FALSE
    /\ preStop' = {pushed[i] : i \in 1..Len(pushed)} \ {ctask[c] : c \in Clients}
    /\ opc' = "notify"
    /\ UNCHANGED <<m_tasks, m_mu, wpc, wtask, cpc, ctask, joinIdx, nextTask, body, result,
                   runs, pushed, popped, popCount, crashed,
                   raised>>

\* stop, line 81: m_cv.notify_all()
StopNotify ==
    /\ PoolAlive
    /\ opc = "notify"
    /\ wpc' = NotifyAll(wpc)
    /\ opc' = "join"
    /\ UNCHANGED <<m_enabled, m_tasks, m_mu, wtask, cpc, ctask, joinIdx, nextTask, body,
                   result, runs, pushed, popped, popCount, preStop, crashed,
                   raised>>

\* stop, lines 83-84: join the workers in the order of m_pool; join returns
\* when that worker's thread function has returned.
StopJoin ==
    /\ PoolAlive
    /\ opc = "join"
    /\ joinIdx <= NumWorkers
    /\ wpc[joinIdx] = "exited"
    /\ joinIdx' = joinIdx + 1
    /\ opc' = IF joinIdx = NumWorkers THEN "joined" ELSE "join"
    /\ UNCHANGED <<m_enabled, m_tasks, m_mu, wpc, wtask, cpc, ctask, nextTask, body,
                   result, runs, pushed, popped, popCount, preStop, crashed,
                   raised>>

\* ~ThreadPool after stop() returned, lines 25-28: the members are destroyed;
\* destroying m_tasks destroys the queued lambdas and with them the last
\* reference to their promises, which makes every such shared state ready
\* with a broken_promise error.  No call of enqueue may be in flight.
Destroy ==
    /\ PoolAlive
    /\ opc = "joined"
    /\ \A c \in Clients : cpc[c] = "idle"
    /\ result' = [t \in Tasks |->
                    IF \E i \in 1..Len(m_tasks) : m_tasks[i] = t
                      THEN BrokenPromise ELSE result[t]]
    /\ m_tasks' = <<>>
    /\ opc' = "destroyed"
    /\ UNCHANGED <<m_enabled, m_mu, wpc, wtask, cpc, ctask, joinIdx, nextTask, body, runs,
                   pushed, popped, popCount, preStop, crashed,
                   raised>>

(***************************************************************************)
(* Retry algorithm, src/recv_sender.cpp.                                   *)
(*                                                                         *)
(* One thread connects retry(inner) to an outer receiver and starts the    *)
(* operation; everything runs inside that start() call, as nested calls.   *)
(* The inner sender is fail_3 or a sender of the same shape: it fails      *)
(* while its counter is at most a threshold and then completes.            *)
(***************************************************************************)
\* fail_3::_op::start, line 254: if(count_ > 3)
Fail3Threshold == 3
\* the error fail_3 sends, line 259
Fail3Error == 42
\* fail_3: fails while count_ <= 3, then completes with set_value
fail_3 == [threshold |-> Fail3Threshold, outcome |-> "value"]

\* the longest chain of attempts the model follows
MaxAttempts == MaxFail + 2

\* a sender of that shape whose every operation fails
AlwaysFails == [threshold |-> 0, outcome |-> "never"]

\* inner senders: each fails `threshold` times, then sends value or done;
\* fail_3 is one of them, and one fails every time
Senders ==
    {[threshold |-> k, outcome |-> o] : k \in 0..MaxFail, o \in {"value", "done"}}
        \cup {fail_3}
        \cup {AlwaysFails}

\* outer receivers: the sink of main (232-240, all channels noexcept); one
\* that records its signals and returns; and one that records them and whose
\* set_value raises the first time it is called (the set_value customisation
\* point is noexcept only if the receiver's set_value is, lines 40-44)
Receivers == {"sink", "plain", "raising"}

\* the outer receiver's set_value and every other channel return normally
ReceiverReturns == rcv \in {"sink", "plain"}

\* the call of the outer receiver's set_value that is about to be made
\* raises: the receiver is the raising one and this is its first set_value
SetValueRaises ==
    /\ rcv = "raising"
    /\ \A i \in 1..Len(outerSignals) : outerSignals[i][1] # "value"

\* std::optional o_ without a value
NoOp == [has |-> FALSE, count |-> 0]
\* a connected inner operation state, fail_3::_op: int const count_
InnerOp(c) == [has |-> TRUE, count |-> c]

\* retry(s): _retry_sender holds a copy of the sender, whose count_ is 0
\* (fail_3, line 245); nothing is connected yet.
RetryInit ==
    /\ sender \in Senders
    /\ rcv \in Receivers
    /\ throwAt \in 0..MaxAttempts
    /\ s_count = 0
    /\ o_ = NoOp
    /\ rpc = "created"
    /\ depth = 0
    /\ connects = 0
    /\ starts = 0
    /\ innerSignals = <<>>
    /\ outerSignals = <<>>
    /\ terminated = FALSE
    /\ innerOps = << >>
    /\ retryOp = "none"

\* the retry component at rest in the specifications of other components
RetryIdle ==
    /\ sender = fail_3
    /\ rcv = "sink"
    /\ throwAt = 0
    /\ s_count = 0
    /\ o_ = NoOp
    /\ rpc = "created"
    /\ depth = 0
    /\ connects = 0
    /\ starts = 0
    /\ innerSignals = <<>>
    /\ outerSignals = <<>>
    /\ terminated = FALSE
    /\ innerOps = << >>
    /\ retryOp = "none"

\* fail_3::connect, line 269, with the post-increment slip: the operation
\* gets the counter's old value
Fail3ConnectCountOld(cnt) == cnt

\* fail_3::connect, line 269: _op<R>{++count_, r}: the count_ the new
\* operation state gets
Fail3ConnectCount(cnt) == cnt + 1

\* fail_3::_op::start with >= in place of >
Fail3SucceedsAtThreshold(snd, cnt) ==
    snd.outcome # "never" /\ cnt >= snd.threshold

\* fail_3::_op::start, line 254: if(count_ > 3) success, else error
Fail3Succeeds(snd, cnt) ==
    snd.outcome # "never" /\ cnt > snd.threshold

\* fail_3::_op::start sending the count before the increment of connect
Fail3CompletionStale(snd, cnt) ==
    IF Fail3Succeeds(snd, cnt)
      THEN IF snd.outcome = "value" THEN <<"value", cnt - 1>> ELSE <<"done", 0>>
      ELSE <<"error", Fail3Error>>

\* the completion an inner operation sends from start(), lines 253-263
Fail3Completion(snd, cnt) ==
    IF Fail3Succeeds(snd, cnt)
      THEN IF snd.outcome = "value" THEN <<"value", cnt>> ELSE <<"done", 0>>
      ELSE <<"error", Fail3Error>>

\* a receiver signal delivered to the outer receiver r_: it is recorded, and
\* the sink's set_error and set_done call std::terminate (lines 232-240)
OuterSignal(sig) ==
    /\ outerSignals' = Append(outerSignals, sig)
    /\ terminated' = (terminated \/ (rcv = "sink" /\ sig[1] # "value"))

\* a retry receiver that drops the arguments of set_value
RetryForwardValueNoArgs(sig) == <<"value", 0>>

\* _retry_receiver::set_value, lines 173-176: the same arguments go to
\* set_value of the outer receiver
RetryForwardValue(sig) == <<"value", sig[2]>>

\* _retry_receiver::set_done, lines 180-182
RetryForwardDone(sig) == <<"done", 0>>

\* a retry receiver that also passes the error on before retrying
RetryErrorReachesOuter(sig) == TRUE

\* _retry_receiver::set_error, lines 177-179: the error is dropped and the
\* outer receiver is not told
RetryErrorForwarded(sig) == FALSE

\* an optional whose emplace leaves the old value in place
OptionalEmplaceKeepsOld(ops, built) ==
    IF built THEN Append(ops, "alive") ELSE ops

\* std::optional::emplace on o_ (initialisation at line 198, emplace at line
\* 207): the contained operation state, if any, is destroyed, then the new
\* one is constructed; nothing is contained when the construction raises
OptionalEmplace(ops, built) ==
    LET reset == [i \in 1..Len(ops) |-> "destroyed"]
    IN  IF built THEN Append(reset, "alive") ELSE reset

\* ::connect(retry(s), r): _retry_sender::connect (219-221) builds _op, whose
\* constructor (198) fills o_ from _connect() (201-205), which connects the
\* inner sender (268-270: ++count_).  A connect that raises leaves through
\* the constructor and no operation state exists.
RetryConnect ==
    /\ rpc = "created"
    /\ s_count' = s_count + 1
    /\ connects' = connects + 1
    /\ IF throwAt = connects + 1
         THEN /\ rpc' = "connect_raised"
              /\ o_' = NoOp
              /\ retryOp' = "none"
         ELSE /\ rpc' = "connected"
              /\ o_' = InnerOp(Fail3ConnectCount(s_count))
              /\ retryOp' = "alive"
    /\ innerOps' = OptionalEmplace(innerOps, throwAt # connects + 1)
    /\ UNCHANGED <<sender, rcv, throwAt, depth, starts, innerSignals, outerSignals,
                   terminated>>

\* _op::start, lines 212-214: ::start(std::move(*o_))
RetryStart ==
    /\ rpc = "connected"
    /\ o_.has
    /\ starts' = starts + 1
    /\ depth' = depth + 1
    /\ rpc' = "inner_start"
    /\ UNCHANGED <<innerOps, retryOp, sender, rcv, throwAt, s_count, o_, connects, innerSignals,
                   outerSignals, terminated>>

\* fail_3::_op::start, lines 253-260, the body of the function-try-block:
\* the inner operation sends its completion to the _retry_receiver.
InnerStart ==
    /\ rpc = "inner_start"
    /\ ~terminated
    /\ innerSignals' = Append(innerSignals, Fail3Completion(sender, o_.count))
    /\ rpc' = "receive"
    /\ UNCHANGED <<innerOps, retryOp, sender, rcv, throwAt, s_count, o_, depth, connects, starts,
                   outerSignals, terminated>>

\* the completion the _retry_receiver is handling
Received == innerSignals[Len(innerSignals)]

\* _retry_receiver::set_value, lines 173-176: set_value of the outer
\* receiver is called.  When that call raises, the exception leaves
\* _retry_receiver::set_value (which is noexcept only if the outer set_value
\* is) and reaches the handler of the inner operation's start.
RetryReceiverSetValue ==
    /\ rpc = "receive"
    /\ Received[1] = "value"
    /\ OuterSignal(RetryForwardValue(Received))
    /\ rpc' = IF SetValueRaises THEN "catch" ELSE "unwind"
    /\ UNCHANGED <<innerOps, retryOp, sender, rcv, throwAt, s_count, o_, depth, connects, starts,
                   innerSignals>>

\* the completion the handler of fail_3::_op::start sends, line 262:
\* set_error(r_, std::current_exception()), 1 standing for the exception
\* the outer receiver raised
Fail3Caught == <<"error", 1>>

\* fail_3::_op::start, lines 261-263, the handler of the function-try-block:
\* the exception that came out of set_value goes to set_error of the
\* _retry_receiver, which retries.
InnerStartCatch ==
    /\ rpc = "catch"
    /\ innerSignals' = Append(innerSignals, Fail3Caught)
    /\ rpc' = "receive"
    /\ UNCHANGED <<innerOps, retryOp, sender, rcv, throwAt, s_count, o_, depth, connects, starts,
                   outerSignals, terminated>>

\* _retry_receiver::set_done, lines 180-182
RetryReceiverSetDone ==
    /\ rpc = "receive"
    /\ Received[1] = "done"
    /\ OuterSignal(RetryForwardDone(Received))
    /\ rpc' = IF rcv = "sink" THEN "terminated" ELSE "unwind"
    /\ UNCHANGED <<innerOps, retryOp, sender, rcv, throwAt, s_count, o_, depth, connects, starts,
                   innerSignals>>

\* a handler of _retry that reports the failed re-connect as set_done
RetryCatchAsDone(e) == <<"done", 0>>

\* the handler of _op::_retry, lines 209-211: the exception e raised by the
\* re-connect goes to set_error of the outer receiver
RetryCatch(e) == <<"error", e>>

\* _retry_receiver::set_error (177-179) calls _op::_retry (206-211), whose
\* first statement is o_.emplace(_connect()): the old inner operation state
\* is destroyed and a new one is connected in its place (++count_).  When
\* the connect raises, o_ is left empty and the handler of _retry passes the
\* exception to set_error of the outer receiver.
RetryEmplace ==
    /\ rpc = "receive"
    /\ Received[1] = "error"
    /\ connects < MaxAttempts
    /\ s_count' = s_count + 1
    /\ connects' = connects + 1
    /\ innerOps' = OptionalEmplace(innerOps, throwAt # connects + 1)
    /\ IF throwAt = connects + 1
         THEN /\ o_' = NoOp
              /\ OuterSignal(RetryCatch(0))
              /\ rpc' = IF rcv = "sink" THEN "terminated" ELSE "unwind"
         ELSE /\ o_' = InnerOp(Fail3ConnectCount(s_count))
              /\ IF RetryErrorForwarded(Received)
                   THEN OuterSignal(Received)
                   ELSE UNCHANGED <<outerSignals, terminated>>
              /\ rpc' = "restart"
    /\ UNCHANGED <<retryOp, sender, rcv, throwAt, depth, starts, innerSignals>>

\* _op::_retry, line 208: ::start(std::move(*o_)) on the new inner operation,
\* one call deeper than the operation that failed
RetryRestart ==
    /\ rpc = "restart"
    /\ ~terminated
    /\ o_.has
    /\ starts' = starts + 1
    /\ depth' = depth + 1
    /\ rpc' = "inner_start"
    /\ UNCHANGED <<innerOps, retryOp, sender, rcv, throwAt, s_count, o_, connects, innerSignals,
                   outerSignals, terminated>>

\* the nested calls return one by one; the last return is the return of
\* ::start on the retry operation
RetryReturn ==
    /\ rpc = "unwind"
    /\ IF depth > 0
         THEN /\ depth' = depth - 1
              /\ rpc' = "unwind"
         ELSE /\ rpc' = "done"
              /\ depth' = depth
    /\ UNCHANGED <<innerOps, retryOp, sender, rcv, throwAt, s_count, o_, connects, starts,
                   innerSignals, outerSignals, terminated>>

\* main, line 275: the retry operation state is a temporary of the
\* statement ::start(::connect(retry(s), sink)); it is destroyed, with the
\* inner operation state it holds, once start() has returned
RetryDestroy ==
    /\ rpc = "done"
    /\ retryOp = "alive"
    /\ retryOp' = "destroyed"
    /\ innerOps' = [i \in 1..Len(innerOps) |-> "destroyed"]
    /\ UNCHANGED <<sender, rcv, throwAt, s_count, o_, rpc, depth, connects, starts,
                   innerSignals, outerSignals, terminated>>

(***************************************************************************)
(* Cooperative scheduler: simple_execution_context, in its two variants    *)
(* (src/unnamed/part_001 10-51 with coroutine awaiters, and                *)
(* src/recv_sender.cpp 421-486 with task_base operation states).           *)
(*                                                                         *)
(* One thread schedules continuations and then calls drain(); a resumed    *)
(* continuation may schedule further ones before it returns to drain().    *)
(* Every awaiter / operation state is a distinct object, named by an id.   *)
(***************************************************************************)
MaxConts == 4
MaxSpawn == 2

Conts == 1..MaxConts
\* nullptr, the value of an empty head and of the last next pointer
Null == 0
Variants == {"coroutine", "task_base"}

VARIABLES
    variant,     \* which of the two simple_execution_context classes runs
    head,        \* simple_execution_context::head
    next,        \* the next pointer of every awaiter / task_base
    dpc,         \* position of the thread: idle, or inside drain()
    cur,         \* the local `a` / `t` of drain()
    enqueued,    \* history: ids in the order of enqueue()
    resumed,     \* history: ids in the order of execute()
    preDrain     \* history: how many entries were enqueued when drain() began

schedVars == <<variant, head, next, dpc, cur, enqueued, resumed, preDrain>>

Range(q) == {q[i] : i \in 1..Len(q)}

SchedInit ==
    /\ variant \in Variants
    /\ head = Null
    /\ next = [c \in Conts |-> Null]
    /\ dpc = "idle"
    /\ cur = Null
    /\ enqueued = << >>
    /\ resumed = << >>
    /\ preDrain = 0

SchedIdle ==
    /\ variant = "coroutine"
    /\ head = Null
    /\ next = [c \in Conts |-> Null]
    /\ dpc = "idle"
    /\ cur = Null
    /\ enqueued = << >>
    /\ resumed = << >>
    /\ preDrain = 0

\* the last entry of the list that starts at h
RECURSIVE ListLast(_, _)
ListLast(h, nx) == IF nx[h] = Null THEN h ELSE ListLast(nx[h], nx)

\* an enqueue that links the new entry behind the last one
EnqueueAtTail(h, nx, a) ==
    IF h = Null
    THEN [head |-> a, next |-> [nx EXCEPT ![a] = Null]]
    ELSE [head |-> h, next |-> [nx EXCEPT ![a] = Null, ![ListLast(h, nx)] = a]]

\* enqueue(): a->next = std::exchange(head, a)
Enqueue(h, nx, a) == [head |-> a, next |-> [nx EXCEPT ![a] = h]]

\* a drain that steps over the entry behind the one it takes
DrainAdvanceSkips(h, nx) == IF nx[h] = Null THEN Null ELSE nx[nx[h]]

\* drain(): the new head of std::exchange(head, head->next)
DrainAdvance(h, nx) == nx[h]

\* drain(): while (head != nullptr)
DrainContinues(h) == h # Null

\* enqueue the entries of the sequence ks, one enqueue() call after another
RECURSIVE EnqueueAll(_, _, _)
EnqueueAll(h, nx, ks) ==
    IF ks = << >>
    THEN [head |-> h, next |-> nx]
    ELSE EnqueueAll(Enqueue(h, nx, Head(ks)).head,
                    Enqueue(h, nx, Head(ks)).next, Tail(ks))

\* the sequences of at most MaxSpawn distinct entries not yet enqueued
Spawnable ==
    {ks \in UNION {[1..n -> Conts \ Range(enqueued)] : n \in 0..MaxSpawn} :
        \A i, j \in 1..Len(ks) : i # j => ks[i] # ks[j]}

\* awaiter::await_suspend (part_001 20-23) / operation_state::start
\* (recv_sender.cpp 453), called before drain(): the entry c is enqueued
Schedule(c) ==
    /\ dpc = "idle"
    /\ c \notin Range(enqueued)
    /\ head' = Enqueue(head, next, c).head
    /\ next' = Enqueue(head, next, c).next
    /\ enqueued' = Append(enqueued, c)
    /\ UNCHANGED <<variant, dpc, cur, resumed, preDrain>>

\* the thread calls drain()
DrainEnter ==
    /\ dpc = "idle"
    /\ dpc' = "test"
    /\ preDrain' = Len(enqueued)
    /\ UNCHANGED <<variant, head, next, cur, enqueued, resumed>>

\* drain(): the loop test holds and the head entry is taken off the list
DrainPop ==
    /\ dpc = "test"
    /\ DrainContinues(head)
    /\ cur' = head
    /\ head' = DrainAdvance(head, next)
    /\ dpc' = "execute"
    /\ UNCHANGED <<variant, next, enqueued, resumed, preDrain>>

\* drain(): a->execute() / t->execute().  The continuation (for task_base:
\* the receiver's set_value, and its set_error when set_value raised) runs
\* on the draining thread and schedules the entries ks before it returns.
DrainExecute ==
    /\ dpc = "execute"
    /\ \E ks \in Spawnable :
        /\ head' = EnqueueAll(head, next, ks).head
        /\ next' = EnqueueAll(head, next, ks).next
        /\ enqueued' = enqueued \o ks
    /\ resumed' = Append(resumed, cur)
    /\ dpc' = "test"
    /\ UNCHANGED <<variant, cur, preDrain>>

\* drain(): the loop test fails and drain() returns
DrainReturn ==
    /\ dpc = "test"
    /\ ~DrainContinues(head)
    /\ dpc' = "returned"
    /\ UNCHANGED <<variant, head, next, cur, enqueued, resumed, preDrain>>

(***************************************************************************)
(* Coroutine hand-off between dedicated threads, src/thread_pool.cpp       *)
(* 224-418.                                                                *)
(*                                                                         *)
(* main constructs the Thread objects a and b, calls the coroutine f and   *)
(* polls `done`; returning from main destroys b and then a.  Coroutine 1   *)
(* is the call f(a, b) of main; further calls of f, with any arguments,    *)
(* put several awaiters into one queue.                                    *)
(***************************************************************************)
MaxCoros == 2

Hosts == {"a", "b"}
Coros == 1..MaxCoros
\* the two co_await expressions of f, each followed by one display() step
Steps == {1, 2}
NoCoro == 0

VARIABLES
    nCalls,      \* how many times main calls f
    args,        \* the arguments <<thread1, thread2>> of every call of f
    mpc,         \* position of the main thread
    mcall,       \* the call of f main is making
    hpc,         \* position of the jthread of every Thread object, in run()
    hcur,        \* the coroutine a thread is running (handle of `awaiter`)
    hstep,       \* the step of f that thread has reached
    m_awaiters,  \* Thread::m_awaiters, the queue of every Thread object
    stopReq,     \* the stop state of every jthread
    alive,       \* the Thread object has not been destroyed
    done,        \* std::atomic_bool done
    frame,       \* every coroutine frame: none, suspended, running, finished, destroyed
    trace,       \* history: <<coroutine, step, thread>> of every display() of f
    hpushed,     \* history: awaiters in the order pushed, per queue
    hpopped,     \* history: awaiters in the order popped, per queue
    unheard,     \* history: a notifyOne found no thread blocked in the wait
    ub           \* a destroyed Thread object was used

handoffVars == <<nCalls, args, mpc, mcall, hpc, hcur, hstep, m_awaiters, stopReq,
                 alive, done, frame, trace, hpushed, hpopped, unheard, ub>>

HandoffInit ==
    /\ nCalls \in 1..MaxCoros
    /\ args \in [Coros -> Hosts \X Hosts]
    /\ args[1] = <<"a", "b">>
    /\ \A c \in Coros : c > nCalls => args[c] = <<"a", "a">>
    /\ mpc = "call"
    /\ mcall = 1
    /\ hpc = [h \in Hosts |-> "test"]
    /\ hcur = [t \in Hosts \cup {"main"} |-> NoCoro]
    /\ hstep = [t \in Hosts \cup {"main"} |-> 0]
    /\ m_awaiters = [h \in Hosts |-> << >>]
    /\ stopReq = [h \in Hosts |-> FALSE]
    /\ alive = [h \in Hosts |-> TRUE]
    /\ done = FALSE
    /\ frame = [c \in Coros |-> "none"]
    /\ trace = << >>
    /\ hpushed = [h \in Hosts |-> << >>]
    /\ hpopped = [h \in Hosts |-> << >>]
    /\ unheard = FALSE
    /\ ub = FALSE

HandoffIdle ==
    /\ nCalls = 1
    /\ args = [c \in Coros |-> IF c = 1 THEN <<"a", "b">> ELSE <<"a", "a">>]
    /\ mpc = "call"
    /\ mcall = 1
    /\ hpc = [h \in Hosts |-> "test"]
    /\ hcur = [t \in Hosts \cup {"main"} |-> NoCoro]
    /\ hstep = [t \in Hosts \cup {"main"} |-> 0]
    /\ m_awaiters = [h \in Hosts |-> << >>]
    /\ stopReq = [h \in Hosts |-> FALSE]
    /\ alive = [h \in Hosts |-> TRUE]
    /\ done = FALSE
    /\ frame = [c \in Coros |-> "none"]
    /\ trace = << >>
    /\ hpushed = [h \in Hosts |-> << >>]
    /\ hpopped = [h \in Hosts |-> << >>]
    /\ unheard = FALSE
    /\ ub = FALSE

\* a co_await that hands the coroutine to the other Thread object
AwaitedThreadSwapped(c, k) == args[c][3 - k]

\* f: `co_await thread1` (397) and `co_await thread2` (400): the Thread
\* object whose addAwaiter gets the handle at the k-th co_await of call c
AwaitedThread(c, k) == args[c][k]

\* a predicate under which the wait never sees an element
hasElementNever(q) == FALSE

\* waitForAnElement: hasElement = [](const auto &x) { return !x.empty(); }
hasElement(q) == q # << >>

\* what a use of the Thread object h can do: its code when h is alive;
\* undefined behaviour, which may or may not act like the code, when not
UseOutcomes(h) == IF alive[h] THEN {TRUE} ELSE BOOLEAN

\* ThreadSafeQueue::push, first statement: queue.push under the lock
PushAwaiter(h, c) ==
    /\ \E landed \in UseOutcomes(h) :
          /\ m_awaiters' = [m_awaiters EXCEPT ![h] = IF landed THEN QueuePush(@, c) ELSE @]
          /\ hpushed' = [hpushed EXCEPT ![h] = IF landed THEN Append(@, c) ELSE @]
    /\ ub' = (ub \/ ~alive[h])

\* main: f(a, b) runs on the main thread up to `co_await thread1`, whose
\* await_suspend pushes the handle onto the queue of thread1
MainCall ==
    /\ mpc = "call"
    /\ PushAwaiter(AwaitedThread(mcall, 1), mcall)
    /\ frame' = [frame EXCEPT ![mcall] = "suspended"]
    /\ hcur' = [hcur EXCEPT !["main"] = mcall]
    /\ hstep' = [hstep EXCEPT !["main"] = 1]
    /\ mpc' = "notify"
    /\ UNCHANGED <<nCalls, args, mcall, hpc, stopReq, alive, done, trace, hpopped, unheard>>

\* ThreadSafeQueue::push, second statement: m_queue.notifyOne() by thread t,
\* which wakes the thread blocked in the wait of that queue, if any
NotifyAwaited(t) ==
    /\ ub' = (ub \/ ~alive[AwaitedThread(hcur[t], hstep[t])])
    /\ unheard' = (unheard \/ hpc[AwaitedThread(hcur[t], hstep[t])] # "blocked")
    /\ \E returns \in UseOutcomes(AwaitedThread(hcur[t], hstep[t])) :
          hpc' = [h \in Hosts |->
                    IF t = h THEN (IF returns THEN "test" ELSE "crashed")
                    ELSE IF h = AwaitedThread(hcur[t], hstep[t]) /\ hpc[h] = "blocked"
                         THEN "wait" ELSE hpc[h]]
    /\ hcur' = [hcur EXCEPT ![t] = NoCoro]
    /\ hstep' = [hstep EXCEPT ![t] = 0]

\* main: the notifyOne of the push, then the return of f to main
MainNotify ==
    /\ mpc = "notify"
    /\ NotifyAwaited("main")
    /\ mcall' = mcall + 1
    /\ mpc' = IF mcall < nCalls THEN "call" ELSE "poll"
    /\ UNCHANGED <<nCalls, args, m_awaiters, stopReq, alive, done, frame, trace,
                   hpushed, hpopped>>

\* main: while (!done) ; sees the flag set
MainPollExit ==
    /\ mpc = "poll"
    /\ done
    /\ mpc' = "stop_b"
    /\ UNCHANGED <<nCalls, args, mcall, hpc, hcur, hstep, m_awaiters, stopReq, alive,
                   done, frame, trace, hpushed, hpopped, unheard, ub>>

\* the Thread object main destroys at each position of its return
Destroying == IF mpc \in {"stop_b", "join_b"} THEN "b" ELSE "a"

\* ~Thread, ~jthread: request_stop(); the stop callback of the wait wakes
\* the thread blocked there
MainRequestStop ==
    /\ mpc \in {"stop_b", "stop_a"}
    /\ stopReq' = [stopReq EXCEPT ![Destroying] = TRUE]
    /\ hpc' = [hpc EXCEPT ![Destroying] = IF @ = "blocked" THEN "wait" ELSE @]
    /\ mpc' = IF mpc = "stop_b" THEN "join_b" ELSE "join_a"
    /\ UNCHANGED <<nCalls, args, mcall, hcur, hstep, m_awaiters, alive, done, frame,
                   trace, hpushed, hpopped, unheard, ub>>

\* ~Thread, ~jthread: join() returns once run() has returned; then
\* m_awaiters is destroyed, and ~Awaiter destroys every queued coroutine
MainJoin ==
    /\ mpc \in {"join_b", "join_a"}
    /\ hpc[Destroying] = "exited"
    /\ frame' = [c \in Coros |->
                   IF c \in Range(m_awaiters[Destroying]) THEN "destroyed" ELSE frame[c]]
    /\ m_awaiters' = [m_awaiters EXCEPT ![Destroying] = << >>]
    /\ alive' = [alive EXCEPT ![Destroying] = FALSE]
    /\ mpc' = IF mpc = "join_b" THEN "stop_a" ELSE "exited"
    /\ UNCHANGED <<nCalls, args, mcall, hpc, hcur, hstep, stopReq, done, trace,
                   hpushed, hpopped, unheard, ub>>

\* Thread::run: while (!st.stop_requested())
RunLoopTest(h) ==
    /\ hpc[h] = "test"
    /\ hpc' = [hpc EXCEPT ![h] = IF stopReq[h] THEN "exited" ELSE "wait"]
    /\ UNCHANGED <<nCalls, args, mpc, mcall, hcur, hstep, m_awaiters, stopReq, alive,
                   done, frame, trace, hpushed, hpopped, unheard, ub>>

\* waitForAnElement: m_cond.wait(lock, st, pred) tests the predicate and
\* the stop state under the lock and blocks, releasing the lock, if both
\* are false
WaitForAnElement(h) ==
    /\ hpc[h] = "wait"
    /\ hpc' = [hpc EXCEPT ![h] = IF hasElement(m_awaiters[h]) \/ stopReq[h]
                                 THEN "pop" ELSE "blocked"]
    /\ UNCHANGED <<nCalls, args, mpc, mcall, hcur, hstep, m_awaiters, stopReq, alive,
                   done, frame, trace, hpushed, hpopped, unheard, ub>>

\* a spurious wake-up of the condition variable
WaitSpuriousWake(h) ==
    /\ hpc[h] = "blocked"
    /\ hpc' = [hpc EXCEPT ![h] = "wait"]
    /\ UNCHANGED <<nCalls, args, mpc, mcall, hcur, hstep, m_awaiters, stopReq, alive,
                   done, frame, trace, hpushed, hpopped, unheard, ub>>

\* Thread::run: auto awaiter = m_awaiters.pop(); if (awaiter) ...
PopAwaiter(h) ==
    /\ hpc[h] = "pop"
    /\ IF m_awaiters[h] # << >>
       THEN /\ hcur' = [hcur EXCEPT ![h] = QueueFront(m_awaiters[h])]
            /\ hpopped' = [hpopped EXCEPT ![h] = Append(@, QueueFront(m_awaiters[h]))]
            /\ m_awaiters' = [m_awaiters EXCEPT ![h] = QueuePop(@)]
            /\ hpc' = [hpc EXCEPT ![h] = "resume"]
       ELSE /\ hpc' = [hpc EXCEPT ![h] = "test"]
            /\ UNCHANGED <<hcur, hpopped, m_awaiters>>
    /\ UNCHANGED <<nCalls, args, mpc, mcall, hstep, stopReq, alive, done, frame,
                   trace, hpushed, unheard, ub>>

\* the step of f that follows the co_await coroutine c is suspended at
NextStep(c) == Cardinality({i \in 1..Len(trace) : trace[i][1] = c}) + 1

\* awaiter->resume(): m_handle() resumes f on thread h, which runs the
\* display() that follows the co_await
ResumeStep(h) ==
    /\ hpc[h] = "resume"
    /\ trace' = Append(trace, <<hcur[h], NextStep(hcur[h]), h>>)
    /\ hstep' = [hstep EXCEPT ![h] = NextStep(hcur[h])]
    /\ frame' = [frame EXCEPT ![hcur[h]] = "running"]
    /\ hpc' = [hpc EXCEPT ![h] = "body"]
    /\ UNCHANGED <<nCalls, args, mpc, mcall, hcur, m_awaiters, stopReq, alive, done,
                   hpushed, hpopped, unheard, ub>>

\* an Awaiter whose resume() leaves the handle in place
AwaiterHandleKept(c) == c

\* Awaiter::resume, lines 317-321: m_handle(); m_handle = nullptr; the
\* handle the popped awaiter holds once resume() has returned
AwaiterHandleAfterResume(c) == NoCoro

\* ~Awaiter, lines 300-304, of an awaiter holding the handle m:
\* if (m_handle) m_handle.destroy(); the frames fr after it
AwaiterDtor(fr, m) == [c \in Coros |-> IF c = m THEN "destroyed" ELSE fr[c]]

\* f after display("This is the thread1"): `co_await thread2` suspends f
\* and pushes its handle onto the queue of thread2
AwaitNext(h) ==
    /\ hpc[h] = "body"
    /\ hstep[h] = 1
    /\ PushAwaiter(AwaitedThread(hcur[h], 2), hcur[h])
    /\ frame' = [frame EXCEPT ![hcur[h]] = "suspended"]
    /\ hstep' = [hstep EXCEPT ![h] = 2]
    /\ hpc' = [hpc EXCEPT ![h] = "notify"]
    /\ UNCHANGED <<nCalls, args, mpc, mcall, hcur, stopReq, alive, done, trace, hpopped, unheard>>

\* the notifyOne of that push; resume() then clears the handle, the popped
\* awaiter is destroyed at the end of the loop body and run() goes round
\* its loop
AwaitNotify(h) ==
    /\ hpc[h] = "notify"
    /\ NotifyAwaited(h)
    /\ frame' = AwaiterDtor(frame, AwaiterHandleAfterResume(hcur[h]))
    /\ UNCHANGED <<nCalls, args, mpc, mcall, m_awaiters, stopReq, alive, done,
                   trace, hpushed, hpopped>>

\* f after display("This is the thread2"): done = true, and the coroutine
\* ends (its frame is freed, final_suspend never suspends); resume() clears
\* the handle, the popped awaiter is destroyed and run() goes round its loop
Finish(h) ==
    /\ hpc[h] = "body"
    /\ hstep[h] = 2
    /\ done' = TRUE
    /\ frame' = AwaiterDtor([frame EXCEPT ![hcur[h]] = "finished"],
                            AwaiterHandleAfterResume(hcur[h]))
    /\ hcur' = [hcur EXCEPT ![h] = NoCoro]
    /\ hstep' = [hstep EXCEPT ![h] = 0]
    /\ hpc' = [hpc EXCEPT ![h] = "test"]
    /\ UNCHANGED <<nCalls, args, mpc, mcall, m_awaiters, stopReq, alive, trace,
                   hpushed, hpopped, unheard, ub>>

(***************************************************************************)
(* Asynchronous line counter, src/thread_pool.cpp 430-460 and              *)
(* src/unnamed/part_000 14-22.                                             *)
(*                                                                         *)
(* The program runs on one thread: when_all_ready starts run(), which      *)
(* counts until a read suspends it, then starts process_events(), whose    *)
(* event loop resumes the count on every read completion.  The file, the   *)
(* event loop and the work scope belong to the I/O library the program     *)
(* uses; they are modelled by their contract.                              *)
(***************************************************************************)
MaxFileSize == 3
MaxBuf == 2

\* '\n', the byte count_lines counts
Newline == 10
Bytes == {Newline, 120}
\* constexpr size_t bufferSize = 4096
DemoBufferSize == 4096
Files == UNION {[1..n -> Bytes] : n \in 0..MaxFileSize}
Faults == {"none", "open", "read"}

VARIABLES
    file,          \* the bytes of the file
    bufferSize,    \* the size of the buffer of count_lines
    fault,         \* the I/O operation that fails, if any
    ctl,           \* what the thread runs: run() / the event loop / main
    runAt,         \* index of the statement of run() to execute next
    countPc,       \* position inside count_lines
    offset,        \* count_lines: offset
    bytesToRead,   \* count_lines: bytesToRead
    newlineCount,  \* count_lines: newlineCount
    ioScope,       \* the io_work_scope of run() is alive
    work,          \* io_service: count of work scopes alive
    stopped,       \* io_service: stop was requested
    evpc,          \* position of process_events()
    out,           \* the counts printed on std::cout
    examined,      \* history: how often each byte of the file was counted
    reads          \* history: number of reads completed

linesVars == <<file, bufferSize, fault, ctl, runAt, countPc, offset, bytesToRead,
               newlineCount, ioScope, work, stopped, evpc, out, examined, reads>>

LinesInit ==
    /\ file \in Files
    /\ bufferSize \in (1..MaxBuf) \cup {DemoBufferSize}
    /\ fault \in Faults
    /\ ctl = "run"
    /\ runAt = 1
    /\ countPc = "none"
    /\ offset = 0
    /\ bytesToRead = 0
    /\ newlineCount = 0
    /\ ioScope = FALSE
    /\ work = 0
    /\ stopped = FALSE
    /\ evpc = "not_started"
    /\ out = << >>
    /\ examined = [i \in 1..Len(file) |-> 0]
    /\ reads = 0

LinesIdle ==
    /\ file = << >>
    /\ bufferSize = DemoBufferSize
    /\ fault = "none"
    /\ ctl = "run"
    /\ runAt = 1
    /\ countPc = "none"
    /\ offset = 0
    /\ bytesToRead = 0
    /\ newlineCount = 0
    /\ ioScope = FALSE
    /\ work = 0
    /\ stopped = FALSE
    /\ evpc = "not_started"
    /\ out = << >>
    /\ examined = << >>
    /\ reads = 0

Min(a, b) == IF a < b THEN a ELSE b

\* a run() whose work scope ends before the count
RunBodyScopeEndsEarly == <<"scope", "release", "count", "print">>

\* run(): the io_work_scope is constructed, count_lines is awaited, the
\* result is printed, and the scope is destroyed at the closing brace
RunBody == <<"scope", "count", "print", "release">>

RunEnded == runAt > Len(RunBody)
RunStatement == IF RunEnded THEN "end" ELSE RunBody[runAt]

\* the thread is inside run() or count_lines
InCoroutine == ctl \in {"run", "run_in_loop"}

\* where the thread continues when the coroutine suspends or ends
Suspended == IF ctl = "run" THEN "main" ELSE "loop"

\* an offset that advances by the length requested
AdvanceByRequest(off, requested, returned) == off + requested

\* count_lines: offset += bytesRead
Advance(off, requested, returned) == off + returned

\* count_lines: std::count(buffer.get(), buffer.get() + bytesRead, '\n')
\* over the buffer buf, which holds the bytes the read returned
RECURSIVE CountNewlines(_, _)
CountNewlines(buf, bytesRead) ==
    IF bytesRead = 0 THEN 0
    ELSE CountNewlines(buf, bytesRead - 1) + (IF buf[bytesRead] = Newline THEN 1 ELSE 0)

\* the work scope's destructor: the count of scopes drops, and the event
\* loop is stopped when none is left
ScopeRelease ==
    /\ ioScope' = FALSE
    /\ work' = work - 1
    /\ stopped' = (stopped \/ work - 1 = 0)

\* run(): cppcoro::io_work_scope ioScope(ioService)
RunScope ==
    /\ InCoroutine /\ RunStatement = "scope"
    /\ ioScope' = TRUE
    /\ work' = work + 1
    /\ runAt' = runAt + 1
    /\ UNCHANGED <<file, bufferSize, fault, ctl, countPc, offset, bytesToRead,
                   newlineCount, stopped, evpc, out, examined, reads>>

\* an exception leaves run(): its scope, if alive, is destroyed and run()
\* ends without printing
RunUnwind ==
    /\ runAt' = Len(RunBody) + 1
    /\ ctl' = Suspended
    /\ IF ioScope THEN ScopeRelease ELSE UNCHANGED <<ioScope, work, stopped>>

\* run(): co_await count_lines(...) starts count_lines, which opens the
\* file and initialises its loop
CountOpen ==
    /\ InCoroutine /\ RunStatement = "count" /\ countPc = "none"
    /\ IF fault = "open"
       THEN /\ RunUnwind
            /\ countPc' = "failed"
       ELSE /\ countPc' = "test"
            /\ UNCHANGED <<runAt, ctl, ioScope, work, stopped>>
    /\ offset' = 0
    /\ newlineCount' = 0
    /\ UNCHANGED <<file, bufferSize, fault, bytesToRead, evpc, out, examined, reads>>

\* count_lines: the loop test holds, bytesToRead is computed and the read is
\* issued; it completes at once, or it suspends the coroutine
CountIssueRead ==
    /\ InCoroutine /\ countPc = "test"
    /\ offset < Len(file)
    /\ bytesToRead' = Min(bufferSize, Len(file) - offset)
    /\ \E inline \in BOOLEAN :
          /\ countPc' = IF inline THEN "read_inline" ELSE "read_wait"
          /\ ctl' = IF inline THEN ctl ELSE Suspended
    /\ UNCHANGED <<file, bufferSize, fault, runAt, offset, newlineCount, ioScope, work,
                   stopped, evpc, out, examined, reads>>

\* the read completes with bytesRead bytes, or fails; count_lines counts
\* the newlines among the bytes returned and advances the offset
ReadCompletes(bytesRead) ==
    IF fault = "read"
    THEN /\ countPc' = "failed"
         /\ UNCHANGED <<offset, newlineCount, examined, reads>>
    ELSE /\ newlineCount' = newlineCount
               + CountNewlines([i \in 1..bytesRead |-> file[offset + i]], bytesRead)
         /\ offset' = Advance(offset, bytesToRead, bytesRead)
         /\ examined' = [i \in 1..Len(file) |->
                           examined[i] + IF i > offset /\ i <= offset + bytesRead
                                         THEN 1 ELSE 0]
         /\ reads' = reads + 1
         /\ countPc' = "test"

\* count_lines: a read that completed at once
CountReadInline ==
    /\ InCoroutine /\ countPc = "read_inline"
    /\ \E bytesRead \in 1..bytesToRead : ReadCompletes(bytesRead)
    /\ IF fault = "read" THEN RunUnwind
       ELSE UNCHANGED <<runAt, ctl, ioScope, work, stopped>>
    /\ UNCHANGED <<file, bufferSize, fault, bytesToRead, evpc, out>>

\* the event loop delivers the completion of the read and resumes
\* count_lines inside process_events()
EventDeliver ==
    /\ ctl = "loop" /\ ~stopped /\ countPc = "read_wait"
    /\ \E bytesRead \in 1..bytesToRead : ReadCompletes(bytesRead)
    /\ IF fault = "read"
       THEN /\ runAt' = Len(RunBody) + 1
            /\ ctl' = "loop"
            /\ IF ioScope THEN ScopeRelease ELSE UNCHANGED <<ioScope, work, stopped>>
       ELSE /\ ctl' = "run_in_loop"
            /\ UNCHANGED <<runAt, ioScope, work, stopped>>
    /\ UNCHANGED <<file, bufferSize, fault, bytesToRead, evpc, out>>

\* count_lines: the loop test fails, co_return newlineCount resumes run()
CountReturn ==
    /\ InCoroutine /\ countPc = "test"
    /\ ~(offset < Len(file))
    /\ countPc' = "returned"
    /\ runAt' = runAt + 1
    /\ UNCHANGED <<file, bufferSize, fault, ctl, offset, bytesToRead, newlineCount,
                   ioScope, work, stopped, evpc, out, examined, reads>>

\* run(): std::cout << "foo.txt has " << lineCount << " lines."
RunPrint ==
    /\ InCoroutine /\ RunStatement = "print"
    /\ countPc = "returned"
    /\ out' = Append(out, newlineCount)
    /\ runAt' = runAt + 1
    /\ UNCHANGED <<file, bufferSize, fault, ctl, countPc, offset, bytesToRead,
                   newlineCount, ioScope, work, stopped, evpc, examined, reads>>

\* run(): the closing brace destroys ioScope
RunRelease ==
    /\ InCoroutine /\ RunStatement = "release"
    /\ ScopeRelease
    /\ runAt' = runAt + 1
    /\ UNCHANGED <<file, bufferSize, fault, ctl, countPc, offset, bytesToRead,
                   newlineCount, evpc, out, examined, reads>>

\* run() has run to its end: the thread goes back to what resumed it
RunEnd ==
    /\ InCoroutine /\ RunEnded
    /\ ctl' = Suspended
    /\ UNCHANGED <<file, bufferSize, fault, runAt, countPc, offset, bytesToRead,
                   newlineCount, ioScope, work, stopped, evpc, out, examined, reads>>

\* when_all_ready starts process_events(), which calls
\* ioService.process_events()
ProcessEventsEnter ==
    /\ ctl = "main" /\ evpc = "not_started"
    /\ evpc' = "processing"
    /\ ctl' = "loop"
    /\ UNCHANGED <<file, bufferSize, fault, runAt, countPc, offset, bytesToRead,
                   newlineCount, ioScope, work, stopped, out, examined, reads>>

\* ioService.process_events() returns once the loop is stopped
ProcessEventsReturn ==
    /\ ctl = "loop" /\ stopped
    /\ evpc' = "returned"
    /\ ctl' = "main"
    /\ UNCHANGED <<file, bufferSize, fault, runAt, countPc, offset, bytesToRead,
                   newlineCount, ioScope, work, stopped, out, examined, reads>>

\* main: sync_wait returns when both tasks have ended; return 0
MainReturn ==
    /\ ctl = "main" /\ evpc = "returned" /\ RunEnded
    /\ ctl' = "exited"
    /\ UNCHANGED <<file, bufferSize, fault, runAt, countPc, offset, bytesToRead,
                   newlineCount, ioScope, work, stopped, evpc, out, examined, reads>>

(***************************************************************************)
(* Promise pipeline, src/pres_prop.cpp.                                    *)
(*                                                                         *)
(* sync_wait runs the task then(...then(new_thread(), f1)..., fn) with a   *)
(* promise for its local state: new_thread spawns a detached thread that   *)
(* calls set_value() on the chain of then-promises, each of which applies  *)
(* its function and passes the result on, down to _promise::_set on the    *)
(* state; the caller waits on the state's condition variable.              *)
(***************************************************************************)
MaxStages == 2
MaxRand == 1

\* the largest and the smallest value of int, the type the functions of
\* main compute in
IntMax == 2147483647
IntMin == -IntMax - 1

\* the largest value of rand(): RAND_MAX, which is INT_MAX with the GNU C
\* library
RandMax == IntMax

\* the values of rand() followed: the MaxRand + 1 smallest, the MaxRand + 1
\* largest, and the two the GNU C library gives main (no srand is called)
Rands ==
    (0..MaxRand) \cup {RandMax - r : r \in 0..MaxRand} \cup {1804289383, 846930886}

\* the sum a + b of two int cannot be represented in int: the addition
\* has undefined behaviour
IntAddOverflows(a, b) ==
    \/ b > 0 /\ a > IntMax - b
    \/ b < 0 /\ a < IntMin - b

\* a + b in int; when the sum cannot be represented, the value a build
\* without trapping gives: the sum reduced modulo 2^32 into IntMin..IntMax
IntAdd(a, b) ==
    IF b > 0 /\ a > IntMax - b THEN (a - IntMax - 1) + (b - IntMax - 1)
    ELSE IF b < 0 /\ a < IntMin - b THEN (a + IntMax + 1) + (b + IntMax + 1)
    ELSE a + b

\* a * k in int for a small k >= 0, as k additions
RECURSIVE IntTimes(_, _)
IntTimes(a, k) == IF k = 0 THEN 0 ELSE IntAdd(IntTimes(a, k - 1), a)

\* the product a * k cannot be represented in int
RECURSIVE IntTimesOverflows(_, _)
IntTimesOverflows(a, k) ==
    /\ k > 0
    /\ \/ IntTimesOverflows(a, k - 1)
       \/ IntAddOverflows(IntTimes(a, k - 1), a)

\* the function async_algo gives to then, []() { return 6 + rand(); }, for
\* each value of rand(): it takes no argument
NullaryFuns == {[op |-> "six_plus", k |-> r] : r \in Rands}

\* functions of one int: main's [](int i) { return i + rand(); }, for each
\* value of rand(), and a doubling function
UnaryFuns == {[op |-> "add", k |-> r] : r \in Rands} \cup {[op |-> "mul", k |-> 2]}

\* the functions given to then
Funs == NullaryFuns \cup UnaryFuns

\* the chains of then stages that compile: new_thread calls set_value(), so
\* the innermost function takes no argument and every later one takes the
\* int the stage before it produced
Chains(n) ==
    {c \in [1..n -> Funs] :
        \A i \in 1..n : c[i] \in (IF i = 1 THEN NullaryFuns ELSE UnaryFuns)}

\* std::variant<std::monostate, std::exception_ptr, T> data
Monostate == [index |-> 0, val |-> 0]
\* a _set that leaves the cell as it was
HoldingNothing(i, v) == Monostate
Holding(i, v) == [index |-> i, val |-> v]

VARIABLES
    stages,      \* the functions of the then stages, innermost first
    data,        \* _state::data
    mtx,         \* _state::mtx: "free", or the thread that holds it
    swpc,        \* position of the thread inside sync_wait
    tpc,         \* position of the thread spawned by new_thread
    stageAt,     \* the then-promise whose set_value the spawned thread runs next
    acc,         \* the arguments of that set_value call
    returned,    \* what sync_wait returned
    calls,       \* history: <<stage, arguments, result>> of every call of a function
                 \* that returned
    early,       \* history: notify_one found the caller not waiting
    base,        \* what the innermost task does with its promise: "value" (new_thread
                 \* calls set_value()) or "exception" (a task calling set_exception)
    token,       \* the failure that task passes to set_exception (0: none)
    sink,        \* the outermost promise: "state" (sync_wait's _promise<T>) or
                 \* "recorder" (a promise that keeps the signal it gets)
    received     \* what the recording promise got

pipeVars == <<stages, data, mtx, swpc, tpc, stageAt, acc, returned, calls, early,
              base, token, sink, received>>

\* the failures a task may pass: 1 is an object of class std::exception, 2 an
\* object of a class derived from it
Failures == {1, 2}

PipeInit ==
    /\ stages \in UNION {Chains(n) : n \in 1..MaxStages}
    /\ data = Monostate
    /\ mtx = "free"
    /\ swpc = "launch"
    /\ tpc = "none"
    /\ stageAt = 1
    /\ acc = << >>
    /\ returned = Monostate
    /\ calls = << >>
    /\ early = FALSE
    /\ base = "value"
    /\ token = 0
    /\ sink = "state"
    /\ received = << >>

PipeIdle ==
    /\ stages = <<[op |-> "six_plus", k |-> 0]>>
    /\ data = Monostate
    /\ mtx = "free"
    /\ swpc = "launch"
    /\ tpc = "none"
    /\ stageAt = 1
    /\ acc = << >>
    /\ returned = Monostate
    /\ calls = << >>
    /\ early = FALSE
    /\ base = "value"
    /\ token = 0
    /\ sink = "state"
    /\ received = << >>

\* a pipeline over any innermost task and outermost promise.  A chain in
\* which a then-promise would call set_exception of sync_wait's promise is
\* left out: that call does not compile (std::exception_ptr cannot be made
\* from the std::exception the then-promise passes).
PipeAnyInit ==
    /\ stages \in UNION {Chains(n) : n \in 0..MaxStages}
    /\ base \in {"value", "exception"}
    /\ token \in (IF base = "exception" THEN Failures ELSE {0})
    /\ sink \in {"state", "recorder"}
    /\ ~(base = "exception" /\ sink = "state" /\ Len(stages) > 0)
    /\ data = Monostate
    /\ mtx = "free"
    /\ swpc = "launch"
    /\ tpc = "none"
    /\ stageAt = 1
    /\ acc = IF base = "exception" THEN <<token>> ELSE << >>
    /\ returned = Monostate
    /\ calls = << >>
    /\ early = FALSE
    /\ received = << >>

\* the call fun_(vs...) has undefined behaviour: its int arithmetic
\* overflows
ApplyOverflows(fn, vs) ==
    CASE fn.op = "six_plus" -> IntAddOverflows(6, fn.k)
      [] fn.op = "add" -> IntAddOverflows(vs[1], fn.k)
      [] fn.op = "mul" -> IntTimesOverflows(vs[1], fn.k)

\* the value of a call fun_(vs...) that returns, computed in int
Apply(fn, vs) ==
    CASE fn.op = "six_plus" -> IntAdd(6, fn.k)
      [] fn.op = "add" -> IntAdd(vs[1], fn.k)
      [] fn.op = "mul" -> IntTimes(vs[1], fn.k)

\* what a call fun_(vs...) can do: return its value; when its arithmetic
\* overflows, return the wrapped value or, in a build that traps on
\* overflow, abort the process
CallOutcomes(fn, vs) ==
    IF ApplyOverflows(fn, vs) THEN {"wraps", "traps"} ELSE {"returns"}

\* the process has not been aborted
ProcessRuns == tpc # "aborted"

\* a then-promise that calls its function on a value-initialised int in
\* place of the arguments it got
ThenSetValueDropsArgs(fn, vs) == <<Apply(fn, <<0>>)>>

\* then::_promise::set_value: p_.set_value(fun_(vs...)), the arguments of
\* the call of the next promise's set_value
ThenSetValue(fn, vs) == <<Apply(fn, vs)>>

\* a then-promise that hands the failure on as it got it
ThenSetExceptionKeeps(e) == e

\* then::_promise::set_exception(exception _e): the argument is copied into
\* a std::exception object, which is what p_.set_exception gets
ThenSetException(e) == 1

\* a notify_one that wakes nobody
NotifyOneLost(pc) == pc

\* cv.notify_one(): a thread blocked in the wait is woken and will re-lock
NotifyOne1(pc) == IF pc = "blocked" THEN "relock" ELSE pc

\* a wait whose predicate holds at once: the wait returns on its first check
DataIsSetAlways(d) == TRUE

\* sync_wait: the predicate of the wait, state.data.index() != 0
DataIsSet(d) == d.index # 0

\* sync_wait: task(_promise<T>{&state}); the then lambdas wrap the promise
\* and new_thread's lambda starts the thread and detaches it
SyncWaitLaunch ==
    /\ swpc = "launch"
    /\ sink = "state"
    /\ tpc' = "stage"
    /\ swpc' = "lock"
    /\ UNCHANGED <<base, token, sink, received, stages, data, mtx, stageAt, acc, returned, calls, early>>

\* sync_wait: std::unique_lock{state.mtx}, and the re-lock of a woken wait
SyncWaitLock ==
    /\ ProcessRuns
    /\ swpc \in {"lock", "relock"}
    /\ mtx = "free"
    /\ mtx' = "caller"
    /\ swpc' = "check"
    /\ UNCHANGED <<base, token, sink, received, stages, data, tpc, stageAt, acc, returned, calls, early>>

\* sync_wait: cv.wait(lk, pred) with the lock held: it returns when the
\* predicate holds (and the block ends, unlocking); else it unlocks and blocks
SyncWaitCheck ==
    /\ ProcessRuns
    /\ swpc = "check"
    /\ mtx' = "free"
    /\ swpc' = IF DataIsSet(data) THEN "read" ELSE "blocked"
    /\ UNCHANGED <<base, token, sink, received, stages, data, tpc, stageAt, acc, returned, calls, early>>

\* a spurious wake-up of the wait
SyncWaitSpuriousWake ==
    /\ ProcessRuns
    /\ swpc = "blocked"
    /\ swpc' = "relock"
    /\ UNCHANGED <<base, token, sink, received, stages, data, mtx, tpc, stageAt, acc, returned, calls, early>>

\* sync_wait: rethrow the exception held, or return the value held
SyncWaitReturn ==
    /\ ProcessRuns
    /\ swpc = "read"
    /\ returned' = data
    /\ swpc' = IF data.index = 1 THEN "raised" ELSE "returned"
    /\ UNCHANGED <<base, token, sink, received, stages, data, mtx, tpc, stageAt, acc, calls, early>>

\* the spawned thread: p.set_value() reaches the next then-promise, which
\* calls its function and passes the result to the promise it wraps.  A
\* call whose arithmetic overflows either yields the wrapped value or
\* aborts the process.
ThreadStage ==
    /\ tpc = "stage"
    /\ base = "value"
    /\ stageAt <= Len(stages)
    /\ \E o \in CallOutcomes(stages[stageAt], acc) :
          IF o = "traps"
            THEN /\ tpc' = "aborted"
                 /\ UNCHANGED <<acc, calls, stageAt>>
            ELSE /\ acc' = ThenSetValue(stages[stageAt], acc)
                 /\ calls' = Append(calls, <<stageAt, acc, Apply(stages[stageAt], acc)>>)
                 /\ stageAt' = stageAt + 1
                 /\ UNCHANGED tpc
    /\ UNCHANGED <<base, token, sink, received, stages, data, mtx, swpc, returned, early>>

\* _promise::_set: auto lk = std::unique_lock{pst->mtx}
SetLock ==
    /\ tpc = "stage"
    /\ sink = "state"
    /\ stageAt > Len(stages)
    /\ mtx = "free"
    /\ mtx' = "thread"
    /\ tpc' = "emplace"
    /\ UNCHANGED <<base, token, sink, received, stages, data, swpc, stageAt, acc, returned, calls, early>>

\* _promise::_set<I>: pst->data.emplace<I>(xs...), with I = 2 for set_value
\* and I = 1 for set_exception
SetEmplace ==
    /\ tpc = "emplace"
    /\ data' = Holding(IF base = "value" THEN 2 ELSE 1, IF acc = << >> THEN 0 ELSE acc[1])
    /\ tpc' = "notify"
    /\ UNCHANGED <<base, token, sink, received, stages, mtx, swpc, stageAt, acc, returned, calls, early>>

\* _promise::_set: pst->cv.notify_one()
SetNotify ==
    /\ tpc = "notify"
    /\ swpc' = NotifyOne1(swpc)
    /\ early' = (swpc # "blocked")
    /\ tpc' = "unlock"
    /\ UNCHANGED <<base, token, sink, received, stages, data, mtx, stageAt, acc, returned, calls>>

\* _promise::_set: lk goes out of scope; the thread's function returns
SetUnlock ==
    /\ tpc = "unlock"
    /\ mtx' = "free"
    /\ tpc' = "ended"
    /\ UNCHANGED <<base, token, sink, received, stages, data, swpc, stageAt, acc, returned, calls, early>>

\* a caller other than sync_wait starts the task with a recording promise
RecorderLaunch ==
    /\ swpc = "launch"
    /\ sink = "recorder"
    /\ tpc' = "stage"
    /\ swpc' = "detached"
    /\ UNCHANGED <<base, token, sink, received, stages, data, mtx, stageAt, acc,
                   returned, calls, early>>

\* the task calls set_exception of the next then-promise, which passes the
\* failure to the promise it wraps and does not call its function
ThreadStageException ==
    /\ tpc = "stage"
    /\ base = "exception"
    /\ stageAt <= Len(stages)
    /\ acc' = <<ThenSetException(acc[1])>>
    /\ stageAt' = stageAt + 1
    /\ UNCHANGED <<base, token, sink, received, stages, data, mtx, swpc, tpc,
                   returned, calls, early>>

\* the last then-promise calls the recording promise
RecordSignal ==
    /\ tpc = "stage"
    /\ sink = "recorder"
    /\ stageAt > Len(stages)
    /\ received' = <<base, IF acc = << >> THEN 0 ELSE acc[1]>>
    /\ tpc' = "ended"
    /\ UNCHANGED <<base, token, sink, stages, data, mtx, swpc, stageAt, acc,
                   returned, calls, early>>

(***************************************************************************)
(* Executor / Callback library, src/all_prop.cpp.                          *)
(*                                                                         *)
(* Everything runs inline on the calling thread: one call of an entry      *)
(* point (submit in one of its three shapes, a callback built by           *)
(* compose_callback, invoke_callback, bulk_execute) makes a sequence of    *)
(* calls, recorded in the order they are made.  A callable is a plain      *)
(* invocable, a Callback (value channel operator(), error, done) or the    *)
(* __local callback of compose_callback; each may raise a failure token    *)
(* (0 = it returns normally).                                              *)
(***************************************************************************)
\* largest iteration count given to bulk_execute
MaxN == 2
\* values and failure tokens of the calls are 1..MaxVal
MaxVal == 2
Vals == 1..MaxVal
Shapes == {"sender", "nullary", "subex"}
Entries == Shapes \cup {"compose", "invoke", "bulk"}
Signals == {"value", "done", "error"}

VARIABLES
    xop,    \* the entry point called
    xin,    \* the arguments of the call
    xout,   \* the calls made so far, the failure leaving the entry point
    xpc     \* call | returned | propagated | terminated | idle

execVars == <<xop, xin, xout, xpc>>

\* one call: which function or channel, with which argument
Ev(chan, a) == [ch |-> chan, arg |-> a]
\* what running a piece of code did: the calls, the failure it raised (0 =
\* none), the value it returned, whether std::terminate was reached
Outcome(calls_, fail, v) ==
    [log |-> calls_, raised |-> fail, result |-> v, terminated |-> FALSE]
After(ev, r) == [r EXCEPT !.log = <<ev>> \o @]

Plain(fail) == [kind |-> "plain", fail |-> fail]
Callback(fail) == [kind |-> "callback", fail |-> fail]

\* the marker callback_invocation_error: constructed inside the handler,
\* its nested_exception base captures the failure being handled
InvocationMarker == 10
callback_invocation_errorUnwrapped(e) == e
callback_invocation_error(e) == InvocationMarker + e
IsMarker(ep) == ep > InvocationMarker
Nested(ep) == ep - InvocationMarker

\* compose_callback(c, fn): the __local object holding both; fn is given
\* by what calling it does
compose_callback(c, fn) == [kind |-> "composed", c_ |-> c, fn_ |-> fn]

\* std::invoke(c, a): operator() of the callable
RECURSIVE Invoke(_, _)
Invoke(c, a) ==
    CASE c.kind = "plain" -> Outcome(<<Ev("plain", a)>>, c.fail, 0)
      [] c.kind = "callback" -> Outcome(<<Ev("value", a)>>, c.fail, 0)
      [] c.kind = "composed" ->
            IF c.fn_.raised # 0
            THEN Outcome(c.fn_.log, c.fn_.raised, 0)
            ELSE LET r == Invoke(c.c_, c.fn_.result)
                 IN  Outcome(c.fn_.log \o r.log, r.raised, 0)

\* c.done()
RECURSIVE DoneSignal(_)
DoneSignal(c) ==
    IF c.kind = "composed" THEN DoneSignal(c.c_) ELSE <<Ev("done", 0)>>

\* c.error(ep)
ErrorSignalAsDone(c, ep) == DoneSignal(c)
RECURSIVE ErrorSignal(_, _)
ErrorSignal(c, ep) ==
    IF c.kind = "composed" THEN ErrorSignal(c.c_, ep) ELSE <<Ev("error", ep)>>

\* try_invoke_callback(f, c, args...): r is what invoke(c, args...) did
try_invoke_callback(f, r) ==
    IF r.raised = 0
    THEN r
    ELSE Outcome(r.log \o ErrorSignal(f, callback_invocation_error(r.raised)), 0, 0)

invoke_callback(c, a) ==
    IF c.kind # "plain"
    THEN try_invoke_callback(c, Invoke(c, a))
    ELSE Invoke(c, a)

\* inline_executor::execute
inline_execute(c) == After(Ev("execute", 0), invoke_callback(c, 0))

\* a failure that leaves a noexcept function ends the program
Noexcept(r) ==
    IF r.raised = 0 THEN r ELSE [r EXCEPT !.raised = 0, !.terminated = TRUE]

\* a nullary function returning v, or raising
Fn(v, fail) == Outcome(<<Ev("fn", 0)>>, fail, v)

\* the bulk operation on the shared state
OpOnCopy(i, shared) == shared
Op(i, shared) == shared * 10 + i + 1

\* for(i = 0; i < n; ++i) op(i, shared); return shared;  op raises `fail`
\* at its call number failAt (0 = never)
RECURSIVE BulkLoop(_, _, _, _, _)
BulkLoop(i, n, shared, failAt, fail) ==
    IF i >= n
    THEN Outcome(<< >>, 0, shared)
    ELSE IF failAt = i + 1
         THEN Outcome(<<Ev("op", i)>>, fail, shared)
         ELSE After(Ev("op", i), BulkLoop(i + 1, n, Op(i, shared), failAt, fail))

\* the function bulk_execute composes with the continuation; sf returns v
BulkFn(n, v, failAt, fail) == After(Ev("sf", 0), BulkLoop(0, n, v, failAt, fail))

bulk_execute(n, v, failAt, fail, c) ==
    inline_execute(compose_callback(c, BulkFn(n, v, failAt, fail)))

\* submit(s, c) for a sender with a member submit, which passes v to c
submit_sender(nothrow, v, c) ==
    LET sub == After(Ev("submit", 0), Invoke(c, v))
    IN  IF nothrow THEN Noexcept(sub) ELSE Noexcept(try_invoke_callback(c, sub))

\* submit(e, c) for an executor and a nullary Callback
submit_nullary(c) == Noexcept(inline_execute(c))

\* submit(e, c) for an executor e and a Callback taking a sub-executor
submit_subex(e, c) ==
    Noexcept(inline_execute(compose_callback(c, Outcome(<<Ev("fn", 0)>>, 0, e))))

NoInput ==
    [cbFail |-> 0, fnFail |-> 0, val |-> 1, n |-> 0, failAt |-> 0,
     nothrow |-> FALSE, sig |-> "value", isCb |-> TRUE]

ExecInit ==
    /\ xop \in Entries
    /\ xin \in [cbFail : 0..MaxVal, fnFail : 0..MaxVal, val : Vals, n : 0..MaxN,
                failAt : 0..MaxN, nothrow : BOOLEAN, sig : Signals,
                isCb : BOOLEAN]
    \* arguments the entry point does not have stay at their defaults
    /\ xop # "sender" => xin.nothrow = NoInput.nothrow
    /\ xop # "compose" => xin.sig = NoInput.sig
    /\ xop # "invoke" => xin.isCb = NoInput.isCb
    /\ xop # "bulk" => xin.n = 0 /\ xin.failAt = 0
    /\ xop \notin {"compose", "bulk"} => xin.fnFail = 0
    /\ xop = "nullary" => xin.val = NoInput.val
    /\ xin.failAt <= xin.n
    /\ (xin.failAt # 0) = (xop = "bulk" /\ xin.fnFail # 0)
    /\ xout = Outcome(<< >>, 0, 0)
    /\ xpc = "call"

ExecIdle ==
    /\ xop = "none"
    /\ xin = NoInput
    /\ xout = Outcome(<< >>, 0, 0)
    /\ xpc = "idle"

\* where the caller is once the entry point has run
Leaves(r) ==
    IF r.terminated THEN "terminated"
    ELSE IF r.raised # 0 THEN "propagated" ELSE "returned"

Returns(r) ==
    /\ xpc = "call"
    /\ xout' = r
    /\ xpc' = Leaves(r)
    /\ UNCHANGED <<xop, xin>>

SubmitSender ==
    /\ xop = "sender"
    /\ Returns(submit_sender(xin.nothrow, xin.val, Callback(xin.cbFail)))

SubmitNullary ==
    /\ xop = "nullary"
    /\ Returns(submit_nullary(Callback(xin.cbFail)))

SubmitSubex ==
    /\ xop = "subex"
    /\ Returns(submit_subex(xin.val, Callback(xin.cbFail)))

\* the caller raises one signal of compose_callback(c, fn)
ComposeValue ==
    /\ xop = "compose" /\ xin.sig = "value"
    /\ Returns(Invoke(compose_callback(Callback(xin.cbFail),
                                       Fn(xin.val, xin.fnFail)), 0))

ComposeDone ==
    /\ xop = "compose" /\ xin.sig = "done"
    /\ Returns(Outcome(DoneSignal(compose_callback(Callback(xin.cbFail),
                                             Fn(xin.val, xin.fnFail))), 0, 0))

ComposeError ==
    /\ xop = "compose" /\ xin.sig = "error"
    /\ Returns(Outcome(ErrorSignal(compose_callback(Callback(xin.cbFail),
                                              Fn(xin.val, xin.fnFail)),
                             xin.val), 0, 0))

InvokeCallback ==
    /\ xop = "invoke"
    /\ Returns(invoke_callback(IF xin.isCb THEN Callback(xin.cbFail)
                                           ELSE Plain(xin.cbFail), xin.val))

BulkExecute ==
    /\ xop = "bulk"
    /\ Returns(bulk_execute(xin.n, xin.val, xin.failAt, xin.fnFail,
                            Callback(xin.cbFail)))

(***************************************************************************)
(* Specifications.                                                         *)
(***************************************************************************)
vars == <<poolVars, retryVars, schedVars, handoffVars, linesVars, pipeVars, execVars>>
notPool == <<retryVars, schedVars, handoffVars, linesVars, pipeVars, execVars>>
notRetry == <<poolVars, schedVars, handoffVars, linesVars, pipeVars, execVars>>
notSched == <<poolVars, retryVars, handoffVars, linesVars, pipeVars, execVars>>
notLines == <<poolVars, retryVars, schedVars, handoffVars, pipeVars, execVars>>
notPipe == <<poolVars, retryVars, schedVars, handoffVars, linesVars, execVars>>
notHandoff == <<poolVars, retryVars, schedVars, linesVars, pipeVars, execVars>>
notExec == <<poolVars, retryVars, schedVars, handoffVars, linesVars, pipeVars>>

InitPool == PoolInit /\ RetryIdle /\ SchedIdle /\ HandoffIdle /\ LinesIdle /\ PipeIdle /\ ExecIdle

NextPool ==
    \/ \E c \in Clients, b \in Bodies : EnqueuePush(c, b) /\ UNCHANGED notPool
    \/ \E c \in Clients : EnqueueNotify(c) /\ UNCHANGED notPool
    \/ \E w \in Workers : RunWait(w) /\ UNCHANGED notPool
    \/ \E w \in Workers : RunSpuriousWake(w) /\ UNCHANGED notPool
    \/ \E w \in Workers : RunCheck(w) /\ UNCHANGED notPool
    \/ \E w \in Workers : RunTask(w) /\ UNCHANGED notPool
    \/ StopDisable /\ UNCHANGED notPool
    \/ StopNotify /\ UNCHANGED notPool
    \/ StopJoin /\ UNCHANGED notPool
    \/ Destroy /\ UNCHANGED notPool

SpecPool == InitPool /\ [][NextPool]_vars

\* The operating system schedules every runnable thread: each thread's next
\* step is taken once it stays possible.  A spurious wake-up is never owed,
\* nor is a new call of enqueue or of the destructor.
PoolFairness ==
    /\ \A w \in Workers :
         WF_vars((RunWait(w) \/ RunCheck(w) \/ RunTask(w))
                    /\ UNCHANGED notPool)
    /\ \A c \in Clients : WF_vars(EnqueueNotify(c) /\ UNCHANGED notPool)
    /\ WF_vars((StopNotify \/ StopJoin) /\ UNCHANGED notPool)

FairSpecPool == SpecPool /\ PoolFairness

PoolIdle == PoolInit

InitRetry == RetryInit /\ PoolIdle /\ SchedIdle /\ HandoffIdle /\ LinesIdle /\ PipeIdle /\ ExecIdle

NextRetry ==
    \/ RetryConnect /\ UNCHANGED notRetry
    \/ RetryStart /\ UNCHANGED notRetry
    \/ InnerStart /\ UNCHANGED notRetry
    \/ RetryReceiverSetValue /\ UNCHANGED notRetry
    \/ InnerStartCatch /\ UNCHANGED notRetry
    \/ RetryReceiverSetDone /\ UNCHANGED notRetry
    \/ RetryEmplace /\ UNCHANGED notRetry
    \/ RetryRestart /\ UNCHANGED notRetry
    \/ RetryReturn /\ UNCHANGED notRetry
    \/ RetryDestroy /\ UNCHANGED notRetry

SpecRetry == InitRetry /\ [][NextRetry]_vars

\* the one thread running the operation keeps running
FairSpecRetry == SpecRetry /\ WF_vars(NextRetry)


InitSched == SchedInit /\ PoolIdle /\ RetryIdle /\ HandoffIdle /\ LinesIdle /\ PipeIdle /\ ExecIdle

NextSched ==
    \/ \E c \in Conts : Schedule(c) /\ UNCHANGED notSched
    \/ DrainEnter /\ UNCHANGED notSched
    \/ DrainPop /\ UNCHANGED notSched
    \/ DrainExecute /\ UNCHANGED notSched
    \/ DrainReturn /\ UNCHANGED notSched

SpecSched == InitSched /\ [][NextSched]_vars

\* the thread inside drain() keeps running
FairSpecSched ==
    SpecSched /\ WF_vars((DrainPop \/ DrainExecute \/ DrainReturn) /\ UNCHANGED notSched)


InitHandoff == HandoffInit /\ PoolIdle /\ RetryIdle /\ SchedIdle /\ LinesIdle /\ PipeIdle /\ ExecIdle

NextHandoff ==
    \/ MainCall /\ UNCHANGED notHandoff
    \/ MainNotify /\ UNCHANGED notHandoff
    \/ MainPollExit /\ UNCHANGED notHandoff
    \/ MainRequestStop /\ UNCHANGED notHandoff
    \/ MainJoin /\ UNCHANGED notHandoff
    \/ \E h \in Hosts : RunLoopTest(h) /\ UNCHANGED notHandoff
    \/ \E h \in Hosts : WaitForAnElement(h) /\ UNCHANGED notHandoff
    \/ \E h \in Hosts : WaitSpuriousWake(h) /\ UNCHANGED notHandoff
    \/ \E h \in Hosts : PopAwaiter(h) /\ UNCHANGED notHandoff
    \/ \E h \in Hosts : ResumeStep(h) /\ UNCHANGED notHandoff
    \/ \E h \in Hosts : AwaitNext(h) /\ UNCHANGED notHandoff
    \/ \E h \in Hosts : AwaitNotify(h) /\ UNCHANGED notHandoff
    \/ \E h \in Hosts : Finish(h) /\ UNCHANGED notHandoff

SpecHandoff == InitHandoff /\ [][NextHandoff]_vars

\* every thread that can take a step of its code eventually takes one
\* (a spurious wake-up is not such a step)
HandoffFairness ==
    /\ WF_vars((MainCall \/ MainNotify \/ MainPollExit \/ MainRequestStop \/ MainJoin)
                 /\ UNCHANGED notHandoff)
    /\ \A h \in Hosts :
          WF_vars((RunLoopTest(h) \/ WaitForAnElement(h) \/ PopAwaiter(h)
                     \/ ResumeStep(h) \/ AwaitNext(h) \/ AwaitNotify(h) \/ Finish(h))
                    /\ UNCHANGED notHandoff)

FairSpecHandoff == SpecHandoff /\ HandoffFairness

InitLines == LinesInit /\ PoolIdle /\ RetryIdle /\ SchedIdle /\ HandoffIdle /\ PipeIdle /\ ExecIdle

NextLines ==
    \/ RunScope /\ UNCHANGED notLines
    \/ CountOpen /\ UNCHANGED notLines
    \/ CountIssueRead /\ UNCHANGED notLines
    \/ CountReadInline /\ UNCHANGED notLines
    \/ EventDeliver /\ UNCHANGED notLines
    \/ CountReturn /\ UNCHANGED notLines
    \/ RunPrint /\ UNCHANGED notLines
    \/ RunRelease /\ UNCHANGED notLines
    \/ RunEnd /\ UNCHANGED notLines
    \/ ProcessEventsEnter /\ UNCHANGED notLines
    \/ ProcessEventsReturn /\ UNCHANGED notLines
    \/ MainReturn /\ UNCHANGED notLines

SpecLines == InitLines /\ [][NextLines]_vars

\* the one thread of the program keeps running
FairSpecLines == SpecLines /\ WF_vars(NextLines)


InitPipe == PipeInit /\ PoolIdle /\ RetryIdle /\ SchedIdle /\ HandoffIdle /\ LinesIdle /\ ExecIdle

NextPipe ==
    \/ SyncWaitLaunch /\ UNCHANGED notPipe
    \/ SyncWaitLock /\ UNCHANGED notPipe
    \/ SyncWaitCheck /\ UNCHANGED notPipe
    \/ SyncWaitSpuriousWake /\ UNCHANGED notPipe
    \/ SyncWaitReturn /\ UNCHANGED notPipe
    \/ ThreadStage /\ UNCHANGED notPipe
    \/ SetLock /\ UNCHANGED notPipe
    \/ SetEmplace /\ UNCHANGED notPipe
    \/ SetNotify /\ UNCHANGED notPipe
    \/ SetUnlock /\ UNCHANGED notPipe

SpecPipe == InitPipe /\ [][NextPipe]_vars

InitPipeAny == PipeAnyInit /\ PoolIdle /\ RetryIdle /\ SchedIdle /\ HandoffIdle /\ LinesIdle /\ ExecIdle

NextPipeAny ==
    \/ SyncWaitLaunch /\ UNCHANGED notPipe
    \/ RecorderLaunch /\ UNCHANGED notPipe
    \/ SyncWaitLock /\ UNCHANGED notPipe
    \/ SyncWaitCheck /\ UNCHANGED notPipe
    \/ SyncWaitSpuriousWake /\ UNCHANGED notPipe
    \/ SyncWaitReturn /\ UNCHANGED notPipe
    \/ ThreadStage /\ UNCHANGED notPipe
    \/ ThreadStageException /\ UNCHANGED notPipe
    \/ RecordSignal /\ UNCHANGED notPipe
    \/ SetLock /\ UNCHANGED notPipe
    \/ SetEmplace /\ UNCHANGED notPipe
    \/ SetNotify /\ UNCHANGED notPipe
    \/ SetUnlock /\ UNCHANGED notPipe

\* the pipeline over any task and any outermost promise
SpecPipeAny == InitPipeAny /\ [][NextPipeAny]_vars

\* both threads keep running (a spurious wake-up is not a step of the
\* code), and a thread that asks for a mutex which is free again and again
\* gets it
FairSpecPipe ==
    /\ SpecPipe
    /\ WF_vars((SyncWaitLaunch \/ SyncWaitLock \/ SyncWaitCheck \/ SyncWaitReturn)
                 /\ UNCHANGED notPipe)
    /\ WF_vars((ThreadStage \/ SetEmplace \/ SetNotify \/ SetUnlock)
                 /\ UNCHANGED notPipe)
    /\ SF_vars(SetLock /\ UNCHANGED notPipe)

InitExec ==
    ExecInit /\ PoolIdle /\ RetryIdle /\ SchedIdle /\ HandoffIdle /\ LinesIdle /\ PipeIdle

NextExec ==
    \/ SubmitSender /\ UNCHANGED notExec
    \/ SubmitNullary /\ UNCHANGED notExec
    \/ SubmitSubex /\ UNCHANGED notExec
    \/ ComposeValue /\ UNCHANGED notExec
    \/ ComposeDone /\ UNCHANGED notExec
    \/ ComposeError /\ UNCHANGED notExec
    \/ InvokeCallback /\ UNCHANGED notExec
    \/ BulkExecute /\ UNCHANGED notExec

SpecExec == InitExec /\ [][NextExec]_vars

(***************************************************************************)
(* Thread pool: the claims.                                                *)
(***************************************************************************)
\* the destructor's stop() has begun
StopBegun == opc # "live"
\* stop() has returned: every worker was joined
StopReturned == opc \in {"joined", "destroyed"}
\* the body of task t ran to its end and its value was stored
Completed(t) == runs[t] >= 1 /\ result[t].st = "value"

\* C1: every deferred result returned by enqueue eventually becomes ready and
\* holds the value the callable returns when called directly.  Stated on the
\* final state: once the pool is gone, every task that was enqueued before
\* the shutdown began holds its callable's value.
C1_ResultReadyWithValue ==
    opc = "destroyed" =>
        \A t \in preStop : result[t] = Value(Call(body[t]))

\* C2: every task enqueued before the shutdown began has been executed to
\* completion when stop() (the destructor) returns.
C2_PreStopTasksCompleted ==
    StopReturned => \A t \in preStop : Completed(t)

\* C3: no task is popped by more than one worker and no task body runs more
\* than once.
C3_NoDoubleInvoke ==
    \A t \in Tasks : popCount[t] <= 1 /\ runs[t] <= 1

\* C3 witness: a task was popped and run once while another worker holds the
\* lock at the pop with the pool enabled.
C3_Witness ==
    \E t \in Tasks, w \in Workers :
        /\ popCount[t] = 1 /\ runs[t] = 1
        /\ wpc[w] = "check" /\ m_enabled /\ m_tasks # <<>>

\* C4: a body that raises leaves its exception in the task's deferred result
\* and the process (the worker loop) goes on.
C4_ExceptionCaptured ==
    \A t \in raised : result[t] = Error /\ ~crashed

\* C5: tasks leave the queue in the order they entered it, whichever workers
\* pop them: the pop history is a prefix of the push history.
C5_FifoDequeue ==
    /\ Len(popped) <= Len(pushed)
    /\ \A i \in 1..Len(popped) : popped[i] = pushed[i]

\* C5 witness: two tasks were queued together and popped by two different
\* workers, which both still hold them.
C5_Witness ==
    /\ Len(popped) >= 2
    /\ \E w1, w2 \in Workers :
         /\ w1 # w2
         /\ wtask[w1] = popped[1] /\ wtask[w2] = popped[2]
         /\ wpc[w1] = "call" /\ wpc[w2] = "call"

\* C6: once stop() has begun, every worker eventually leaves its loop and is
\* joined, provided the running tasks end (a body that raises ends the
\* process instead).
C6_StopTerminates ==
    StopBegun ~> ((StopReturned /\ \A w \in Workers : wpc[w] = "exited") \/ crashed)

\* C6 witness: stop() has set the flag while every worker is blocked in the
\* wait and the notify_all is still to come.
C6_Witness ==
    /\ opc = "notify"
    /\ ~m_enabled
    /\ Blocked = Workers

(***************************************************************************)
(* Retry: the claims.                                                      *)
(***************************************************************************)
\* main, lines 273-276: retry(fail_3) connected to sink
Fail3Scenario == sender = fail_3 /\ rcv = "sink" /\ throwAt = 0
\* the start() call on the retry operation has ended, by return or by
\* std::terminate
RetryEnded == rpc \in {"unwind", "done", "terminated"}
\* the error completions the inner operations sent
InnerErrors == {j \in 1..Len(innerSignals) : innerSignals[j][1] = "error"}
\* the set_value calls of the outer receiver that raised, each answered by
\* the handler of the inner operation's start
Raises == Cardinality({j \in 1..Len(innerSignals) : innerSignals[j] = Fail3Caught})
\* the value and done signals of a sequence of completions, in order
Completions(sigs) == SelectSeq(sigs, LAMBDA sg : sg[1] \in {"value", "done"})
\* the inner sender completed with value or done and the retry receiver has
\* handled that completion
InnerCompleted ==
    /\ Len(innerSignals) > 0
    /\ Received[1] \in {"value", "done"}
    /\ rpc # "receive"

\* C7: retry(fail_3) connected to sink and started always completes with the
\* value 4: the inner operations fail on counts 1, 2, 3 and succeed on
\* count 4, and the sink's error and done channels are never reached.
C7_Fail3YieldsFour ==
    /\ [](Fail3Scenario =>
            /\ ~terminated
            /\ \A i \in 1..Len(outerSignals) : outerSignals[i] = <<"value", 4>>
            /\ (rpc = "done" =>
                  /\ outerSignals = << <<"value", 4>> >>
                  /\ innerSignals = << <<"error", Fail3Error>>, <<"error", Fail3Error>>,
                                       <<"error", Fail3Error>>, <<"value", 4>> >>))
    /\ (Fail3Scenario ~> (rpc = "done" /\ outerSignals = << <<"value", 4>> >>))

\* C7 witness: the fail_3 scenario has returned from start with value 4
\* after four connects.
C7_Witness ==
    /\ Fail3Scenario
    /\ rpc = "done"
    /\ connects = 4
    /\ outerSignals = << <<"value", 4>> >>

\* C8: the outer receiver gets at most one completion signal, and exactly
\* one once the inner sender has completed with value or done.
C8_AtMostOneSignal ==
    /\ Len(outerSignals) <= 1
    /\ InnerCompleted => Len(outerSignals) = 1

\* a run in which C8 is met: after two failed attempts the inner sender sent
\* done and the recording receiver holds exactly one signal.  With the
\* receiver whose first set_value raises it is not met: the handler of the
\* inner operation's start turns the exception into an error completion,
\* retry connects and starts once more, and set_value reaches the outer
\* receiver a second time.
C8_Witness ==
    /\ rcv = "plain"
    /\ rpc = "done"
    /\ Cardinality(InnerErrors) = 2
    /\ Received[1] = "done"
    /\ Len(outerSignals) = 1

\* C9: a value completion of the inner operation reaches the outer receiver
\* as set_value with the same arguments, a done completion reaches it as
\* set_done, and no error completion of an inner operation reaches the outer
\* receiver's error channel.  The value and done signals of the outer
\* receiver are the value and done completions of the inner operations, one
\* for one and in order; with a receiver whose channels return, the handled
\* completion is the only signal the outer receiver has.
C9_ForwardsUnchanged ==
    /\ ReceiverReturns /\ InnerCompleted => outerSignals = <<Received>>
    /\ InnerCompleted =>
          /\ outerSignals # << >>
          /\ outerSignals[Len(outerSignals)] = Received
          /\ Completions(outerSignals) = Completions(innerSignals)
    /\ \A i \in 1..Len(outerSignals) :
         /\ outerSignals[i][1] \in {"value", "done"} =>
              \E j \in 1..Len(innerSignals) : innerSignals[j] = outerSignals[i]
         /\ \A j \in InnerErrors : outerSignals[i] # innerSignals[j]

\* C9 witness: the inner sender failed once, then sent the value 2, which the
\* outer receiver holds.
C9_Witness ==
    /\ rpc = "done"
    /\ innerSignals = << <<"error", Fail3Error>>, <<"value", 2>> >>
    /\ outerSignals = << <<"value", 2>> >>

\* C10: every error completion is answered by a fresh inner operation that
\* is connected and started, without a cap: a sender that fails k times and
\* then completes takes exactly k+1 connects and k+1 starts, and with a
\* sender that always fails the operation never signals the outer receiver
\* and never ends (the inner sender's connect does not raise here).  An
\* error completion sent by the handler of start, after the outer set_value
\* raised, is an error completion like the others and is answered by one
\* more connect and start.
C10_RetriesEveryError ==
    throwAt = 0 =>
        /\ (rpc = "inner_start" => connects = Cardinality(InnerErrors) + 1
                                   /\ starts = connects)
        /\ (sender # AlwaysFails /\ RetryEnded =>
                /\ connects = sender.threshold + 1 + Raises
                /\ starts = sender.threshold + 1 + Raises
                /\ connects = Cardinality(InnerErrors) + 1
                /\ (ReceiverReturns => Raises = 0))
        /\ (sender = AlwaysFails =>
                /\ outerSignals = <<>>
                /\ ~RetryEnded
                /\ (rpc = "receive" => Received[1] = "error")
                /\ (rpc = "receive" /\ connects < MaxAttempts => ENABLED RetryEmplace))

\* C10 witness: a sender that fails MaxFail times has completed.
C10_Witness ==
    /\ throwAt = 0
    /\ sender.threshold = MaxFail
    /\ rpc = "done"
    /\ connects = MaxFail + 1
    /\ starts = MaxFail + 1

\* C11: when the re-connect of the inner operation raises during a retry,
\* the exception is caught and reaches the outer receiver's error channel,
\* and no further inner operation is connected or started.
C11_ReconnectFailureForwarded ==
    (throwAt > 1 /\ connects >= throwAt) =>
        /\ (ReceiverReturns => outerSignals = << <<"error", 0>> >>)
        /\ outerSignals # << >>
        /\ outerSignals[Len(outerSignals)] = <<"error", 0>>
        /\ Cardinality({i \in 1..Len(outerSignals) : outerSignals[i][1] = "error"}) = 1
        /\ connects = throwAt
        /\ starts = throwAt - 1
        /\ ~o_.has
        /\ RetryEnded
        /\ Received[1] = "error"
        /\ (ReceiverReturns => \A j \in 1..Len(innerSignals) : innerSignals[j][1] = "error")

\* C11 witness: the third connect raised, the recording receiver holds the
\* error and start() has returned.
C11_Witness ==
    /\ rcv = "plain"
    /\ throwAt = 3
    /\ rpc = "done"
    /\ connects = 3
    /\ outerSignals = << <<"error", 0>> >>

(***************************************************************************)
(* Cooperative scheduler: the claims.                                      *)
(***************************************************************************)
\* the position of entry c in the sequence q (0 when absent)
PosIn(q, c) == IF c \in Range(q) THEN CHOOSE i \in 1..Len(q) : q[i] = c ELSE 0

\* how many times entry c occurs in the sequence q
Occurrences(q, c) == Cardinality({i \in 1..Len(q) : q[i] = c})

\* C12: drain() resumes in reverse-of-enqueue order, in both variants: the
\* entry it takes is the most recently enqueued one not yet resumed, and of
\* two entries scheduled before the drain the later one is resumed first.
C12_DrainIsLifo ==
    /\ dpc = "execute" =>
          \A j \in 1..Len(enqueued) :
              j > PosIn(enqueued, cur) => enqueued[j] \in Range(resumed)
    /\ \A i, j \in 1..Len(enqueued) :
          (i < j /\ j <= preDrain /\ dpc # "idle"
             /\ enqueued[i] \in Range(resumed) /\ enqueued[j] \in Range(resumed))
          => PosIn(resumed, enqueued[j]) < PosIn(resumed, enqueued[i])

\* C12 witness: A = 1 then B = 2 were scheduled, drain() resumed B, B
\* scheduled 3, and drain() resumed 3 and then A.
C12_Witness ==
    /\ variant = "task_base"
    /\ enqueued = <<1, 2, 3>>
    /\ preDrain = 2
    /\ resumed = <<2, 3, 1>>
    /\ dpc = "returned"

\* C13: drain() returns only with an empty list, every entry enqueued before
\* or during the call has then been resumed exactly once, no entry is ever
\* resumed twice, and a drain() that was entered returns.
C13_DrainCompletes ==
    /\ [](dpc = "returned" =>
             /\ head = Null
             /\ \A c \in Conts :
                   Occurrences(resumed, c) = IF c \in Range(enqueued) THEN 1 ELSE 0)
    /\ [](\A c \in Conts : Occurrences(resumed, c) <= 1)
    /\ (dpc # "idle" ~> dpc = "returned")

\* C13 witness: drain() returned after resuming two entries scheduled before
\* the call and two scheduled by a resumed continuation.
C13_Witness ==
    /\ dpc = "returned"
    /\ preDrain = 2
    /\ Len(enqueued) = 4
    /\ Len(resumed) = 4
    /\ head = Null

(***************************************************************************)
(* Coroutine hand-off: the claims.                                         *)
(***************************************************************************)
\* coroutine c has run its step k
StepRan(c, k) == \E i \in 1..Len(trace) : trace[i][1] = c /\ trace[i][2] = k

\* C14: every step of f runs on the thread of the Thread object awaited just
\* before it (step 1 on thread1, step 2 on thread2, never on main or on the
\* other worker), and step 1 of a call runs before its step 2.
C14_StepsOnAwaitedThreads ==
    \A i \in 1..Len(trace) :
        /\ trace[i][2] \in Steps
        /\ trace[i][3] = args[trace[i][1]][trace[i][2]]
        /\ trace[i][2] = 2 => \E j \in 1..(i - 1) :
                                  trace[j][1] = trace[i][1] /\ trace[j][2] = 1

\* C14 witness: the call f(a, b) alone ran step 1 on a and then step 2 on b.
C14_Witness ==
    /\ nCalls = 1
    /\ trace = << <<1, 1, "a">>, <<1, 2, "b">> >>

\* C15: `done` is eventually set, and only once some call of f has run both
\* its steps; main eventually leaves its polling loop; and the call f(a, b),
\* when it is the only one, runs to its end.
C15_DoneEventuallySet ==
    /\ [](done => \E c \in Coros : StepRan(c, 1) /\ StepRan(c, 2))
    /\ <>(/\ done
          /\ mpc \notin {"call", "notify", "poll"}
          /\ nCalls = 1 => frame[1] = "finished")

\* C15 witness: a notifyOne came before the worker waited, and still the
\* only call of f finished and main returned.
C15_Witness ==
    /\ nCalls = 1
    /\ unheard
    /\ done
    /\ frame[1] = "finished"
    /\ mpc = "exited"

\* C16: every queue is popped in the order it was pushed.
C16_AwaitersFifo ==
    \A h \in Hosts :
        /\ Len(hpopped[h]) <= Len(hpushed[h])
        /\ \A i \in 1..Len(hpopped[h]) : hpopped[h][i] = hpushed[h][i]

\* C16 witness: the queue of b got coroutine 1 from the thread of a and
\* coroutine 2 from main, and b popped 1 and then 2.
C16_Witness ==
    /\ hpushed["b"] = <<1, 2>>
    /\ hpopped["b"] = <<1, 2>>

(***************************************************************************)
(* Line counter: the claims.                                               *)
(***************************************************************************)
\* the number of newline bytes of the file
NewlinesOf(f) == Cardinality({i \in 1..Len(f) : f[i] = Newline})

\* C17: when count_lines returns, its result is the number of newline bytes
\* of the file and every byte was counted exactly once, whatever the buffer
\* size and the lengths of the reads; no byte is ever counted twice.
C17_CountsEveryNewline ==
    /\ \A i \in 1..Len(file) : examined[i] <= 1
    /\ countPc = "returned" =>
          /\ newlineCount = NewlinesOf(file)
          /\ offset = Len(file)
          /\ \A i \in 1..Len(file) : examined[i] = 1

\* C17 witness: a file of three bytes with two newlines was counted with a
\* buffer of two bytes in three reads of one byte.
C17_Witness ==
    /\ file = <<Newline, 120, Newline>>
    /\ bufferSize = 2
    /\ reads = 3
    /\ countPc = "returned"
    /\ newlineCount = 2

\* the count has started and neither failed nor had its result printed
CountInProgress == countPc \in {"test", "read_inline", "read_wait", "returned"} /\ out = << >>

\* C18: the work scope is alive from before the count starts until the
\* result is printed; process_events() does not return before the scope is
\* released and does return after it; the program ends.
C18_ScopeSpansCount ==
    /\ [](CountInProgress => ioScope /\ work > 0 /\ ~stopped /\ evpc # "returned")
    /\ [](evpc = "returned" => ~ioScope /\ work = 0 /\ RunEnded)
    /\ [](fault = "none" /\ RunEnded => out = <<NewlinesOf(file)>>)
    /\ <>(ctl = "exited")

\* C18 witness: the loop delivered read completions, the result was
\* printed, the scope released, process_events() returned and main ended.
C18_Witness ==
    /\ ctl = "exited"
    /\ fault = "none"
    /\ reads = 2
    /\ out = <<1>>
    /\ evpc = "returned"
    /\ work = 0

(***************************************************************************)
(* Promise pipeline: the claims.                                           *)
(***************************************************************************)
\* how many times the function of stage k was called
CallsOf(k) == Cardinality({i \in 1..Len(calls) : calls[i][1] = k})

C20_StagesInChainOrder ==
    (swpc = "returned" /\ Len(stages) = 2) =>
        /\ calls = << <<1, << >>, Apply(stages[1], << >>)>>,
                      <<2, <<Apply(stages[1], << >>)>>,
                       Apply(stages[2], <<Apply(stages[1], << >>)>>)>> >>
        /\ returned = Holding(2, Apply(stages[2], <<Apply(stages[1], << >>)>>))

\* C20 witness: f = 6 + rand() with rand() = 1 and g doubling: sync_wait
\* returned 14 (in the other order the result would be 8).
C20_Witness ==
    /\ stages = <<[op |-> "six_plus", k |-> 1], [op |-> "mul", k |-> 2]>>
    /\ swpc = "returned"
    /\ returned = Holding(2, 14)

\* C21: the state cell is unset until _set stores into it, holds a value or
\* a failure from then on, never changes once set, and the consumer is not
\* left blocked once _set has notified.
C21_SingleAssignment ==
    /\ [][data # Monostate => data' = data]_vars
    /\ [](tpc \in {"none", "stage", "emplace", "aborted"} => data = Monostate)
    /\ [](tpc \in {"notify", "unlock"} \/ (tpc = "ended" /\ sink = "state")
             => data.index = (IF base = "value" THEN 2 ELSE 1))
    /\ [](tpc \in {"unlock", "ended"} => swpc # "blocked")

\* C21 witness: the consumer was blocked when the cell was set to a failure,
\* was woken, and sync_wait raised.
C21_Witness ==
    /\ base = "exception"
    /\ ~early
    /\ tpc = "ended"
    /\ data = Holding(1, 2)
    /\ swpc = "raised"

\* C22: a failure passed to a chain of then stages reaches the outermost
\* promise as the same failure, no function of a stage is called, and
\* sync_wait raises the failure its state holds instead of returning.
C22_FailurePropagated ==
    base = "exception" =>
        /\ calls = << >>
        /\ received # << >> => received = <<"exception", token>>
        /\ swpc \in {"returned", "raised"} =>
              swpc = "raised" /\ returned = Holding(1, token)

(***************************************************************************)
(* Executor / Callback library: the claims.                                *)
(***************************************************************************)
\* how many of the calls made went to one of the functions chs
Calls(chs) == Cardinality({i \in 1..Len(xout.log) : xout.log[i].ch \in chs})
\* the channels of the callback that were invoked
ChannelsUsed == {xout.log[i].ch : i \in 1..Len(xout.log)} \cap Signals

\* C23: once submit has run, in any of its three shapes, the underlying
\* work (the sender's submit member, the executor's execute) was invoked
\* exactly once and at most one of the callback's value, error and done
\* channels was invoked, also when the callback's invocation raises.
C23_OneWorkOneChannel ==
    xop \in Shapes /\ xpc # "call" =>
        /\ Calls({"submit", "execute"}) = 1
        /\ Cardinality(ChannelsUsed) <= 1

\* C24: a callback built by compose_callback(outer, fn), when invoked,
\* calls fn exactly once and then passes fn's result to outer's value
\* channel exactly once (nothing is passed when fn raises); when its done
\* or error signal is raised instead, outer receives that same signal, with
\* the same failure token, and fn is not called.
C24_ComposeForwards ==
    xop = "compose" /\ xpc # "call" =>
        CASE xin.sig = "value" ->
                /\ Calls({"fn"}) = 1
                /\ xin.fnFail = 0 => xout.log = <<Ev("fn", 0), Ev("value", xin.val)>>
                /\ xin.fnFail # 0 => Calls(Signals) = 0 /\ xout.raised = xin.fnFail
          [] xin.sig = "done" -> xout.log = <<Ev("done", 0)>>
          [] xin.sig = "error" -> xout.log = <<Ev("error", xin.val)>>

C24_Witness ==
    /\ xop = "compose" /\ xin.sig = "value" /\ xpc = "returned"
    /\ xout.log = <<Ev("fn", 0), Ev("value", MaxVal)>>

\* C25: invoke_callback runs the callable inline; when a Callback's
\* invocation raises, its error channel receives the invocation-error
\* marker nesting the failure raised and invoke_callback returns normally;
\* when a plain invocable raises, the same failure leaves invoke_callback.
C25_InvokeCallbackRoutes ==
    xop = "invoke" /\ xpc # "call" =>
        IF xin.isCb
        THEN /\ xpc = "returned"
             /\ xout.log[1] = Ev("value", xin.val)
             /\ IF xin.cbFail = 0
                THEN Len(xout.log) = 1
                ELSE /\ Len(xout.log) = 2
                     /\ xout.log[2].ch = "error"
                     /\ IsMarker(xout.log[2].arg)
                     /\ Nested(xout.log[2].arg) = xin.cbFail
        ELSE /\ xout.log = <<Ev("plain", xin.val)>>
             /\ xin.cbFail = 0 => xpc = "returned"
             /\ xin.cbFail # 0 => xpc = "propagated" /\ xout.raised = xin.cbFail

C25_Witness ==
    /\ xop = "invoke" /\ xin.isCb /\ xin.cbFail = MaxVal /\ xpc = "returned"
    /\ Len(xout.log) = 2

\* the calls op(0, s), ..., op(n - 1, s) in ascending order
OpCalls(n) == [i \in 1..n |-> Ev("op", i - 1)]
\* the state sf returned after op(0, s), ..., op(n - 1, s) worked on it
RECURSIVE FoldedState(_, _)
FoldedState(n, v) == IF n = 0 THEN v ELSE FoldedState(n - 1, v) * 10 + n

\* C26: bulk_execute on an executor without a bulk operation, when no call
\* of op raises, makes one executor submission and inside it calls
\* stateFactory once, then op(i, state) once for each i in [0, n) in
\* ascending order on the one shared state, then passes that state to the
\* continuation once.
C26_BulkOrder ==
    xop = "bulk" /\ xpc # "call" /\ xin.failAt = 0 =>
        /\ SubSeq(xout.log, 1, xin.n + 3)
             = <<Ev("execute", 0), Ev("sf", 0)>> \o OpCalls(xin.n)
                 \o <<Ev("value", FoldedState(xin.n, xin.val))>>
        /\ Calls({"execute"}) = 1
        /\ Calls({"sf"}) = 1
        /\ Calls({"op"}) = xin.n
        /\ Calls({"value"}) = 1

C26_Witness ==
    /\ xop = "bulk" /\ xin.n = MaxN /\ xin.failAt = 0 /\ xin.cbFail = 0
    /\ xpc = "returned" /\ Len(xout.log) = MaxN + 3

(***************************************************************************)
(* Retry: the claims about fail_3 and the operation states.                *)
(***************************************************************************)
\* C27 as stated: the counter of fail_3 starts at 0 and grows by one with
\* each start; the operation signals error 42 while the count before the
\* increment is at most 3 and, once the counter exceeds 3, signals success
\* with the current counter value.
C27_ErrorWhilePreIncrementAtMost3 ==
    sender = fail_3 /\ rpc = "receive" /\ Received # Fail3Caught =>
        /\ s_count = starts
        /\ Received = (IF s_count - 1 <= 3 THEN <<"error", 42>>
                                           ELSE <<"value", s_count>>)

\* C27 amended: the counter of fail_3 starts at 0; the connect that precedes
\* each start increments it by one and hands the new count to the
\* operation; the operation signals error 42 while that new count is at
\* most 3 (the count before the increment at most 2) and signals success
\* with the count once it exceeds 3, which is on the 4th start.
C27_ErrorWhileCountAtMost3 ==
    /\ sender = fail_3 /\ rpc = "created" => s_count = 0
    /\ sender = fail_3 /\ rpc = "receive" /\ Received # Fail3Caught =>
          /\ s_count = starts
          /\ o_.count = s_count
          /\ Received = (IF s_count <= 3 THEN <<"error", 42>>
                                         ELSE <<"value", s_count>>)

C27_Witness ==
    /\ sender = fail_3 /\ rpc = "receive" /\ starts = 4 /\ s_count = 4
    /\ Received = <<"value", 4>>
    /\ SubSeq(innerSignals, 1, 3) = <<<<"error", 42>>, <<"error", 42>>, <<"error", 42>>>>

\* the inner operation states alive
AliveOps == {i \in 1..Len(innerOps) : innerOps[i] = "alive"}

\* C29: at most one inner operation state exists at any time; an inner
\* operation state is replaced or destroyed only after it has signalled its
\* completion; the retry operation state is alive from its start until its
\* one completion signal has been delivered.
C29_OneInnerOpReplacedAfterSignal ==
    /\ [](Cardinality(AliveOps) <= 1)
    /\ [](retryOp # "destroyed" => (o_.has <=> AliveOps # {}))
    /\ [][\A i \in AliveOps : innerOps'[i] = "destroyed" => i <= Len(innerSignals)]_vars
    /\ [](starts >= 1 /\ outerSignals = << >> /\ ~terminated => retryOp = "alive")
    /\ [](retryOp = "destroyed" =>
            /\ starts >= 1
            /\ Len(outerSignals) >= 1
            /\ (ReceiverReturns => Len(outerSignals) = 1))

C29_Witness ==
    /\ sender = fail_3 /\ retryOp = "destroyed"
    /\ innerOps = <<"destroyed", "destroyed", "destroyed", "destroyed">>
    /\ outerSignals = << <<"value", 4>> >>

(***************************************************************************)
(* Thread pool: the assertion of the worker loop.                          *)
(***************************************************************************)
\* C30: the assertion of the worker loop holds in every reachable state:
\* a worker that has returned from the wait, holds the lock and finds the
\* pool enabled finds the queue non-empty when it pops, for every worker
\* and every interleaving with the other workers, the clients and stop().
C30_AssertionHolds ==
    \A w \in Workers :
        wpc[w] = "check" =>
            /\ m_mu = w
            /\ m_enabled => m_tasks # << >>

C30_Witness ==
    \E w, v \in Workers :
        /\ w # v
        /\ wpc[w] = "check" /\ m_enabled /\ Len(m_tasks) = 1
        /\ wpc[v] = "lock"
        /\ popped # << >>

(***************************************************************************)
(* Coroutine hand-off: ownership of the awaiters.                          *)
(***************************************************************************)
\* the awaiters the queue of h holds
QueuedIn(h) == Range(m_awaiters[h])
\* the awaiters pushed onto the queue of h and not popped yet
PendingAwaiters(h) == SubSeq(hpushed[h], Len(hpopped[h]) + 1, Len(hpushed[h]))
\* the Thread object whose destructor completes in this step
TornDown(h) == alive[h] /\ ~alive'[h]

\* C28: the queue of a live Thread object holds exactly the awaiters pushed
\* onto it and not yet popped, each a suspended computation no thread is
\* running; a computation is destroyed only by the teardown of the Thread
\* object in whose queue its awaiter waits, never once it runs or has
\* finished, and never a second time; the teardown destroys every awaiter
\* still queued; and a thread whose stop is requested while it waits on an
\* empty queue is woken, does not block again and goes from the wait through
\* the empty pop and the loop test out of its loop.
C28_QueueOwnsAwaiters ==
    /\ [](\A h \in Hosts : alive[h] =>
            /\ m_awaiters[h] = PendingAwaiters(h)
            /\ \A c \in QueuedIn(h) :
                  /\ frame[c] = "suspended"
                  /\ \A t \in Hosts : hcur[t] = c => hpc[t] = "notify"
                  /\ \A other \in Hosts \ {h} :
                        alive[other] => c \notin QueuedIn(other))
    /\ [][\A c \in Coros :
            /\ frame[c] = "destroyed" => frame'[c] = "destroyed"
            /\ frame[c] # "destroyed" /\ frame'[c] = "destroyed" =>
                  /\ frame[c] = "suspended"
                  /\ \E h \in Hosts : TornDown(h) /\ c \in QueuedIn(h)]_vars
    /\ [][\A h \in Hosts : TornDown(h) =>
            /\ hpc[h] = "exited"
            /\ \A c \in QueuedIn(h) : frame'[c] = "destroyed"]_vars
    /\ [](\A h \in Hosts : stopReq[h] => hpc[h] # "blocked")
    /\ [][\A h \in Hosts :
            stopReq[h] /\ m_awaiters[h] = << >> /\ hpc'[h] # hpc[h] =>
                /\ hpc[h] = "wait" => hpc'[h] = "pop"
                /\ hpc[h] = "pop" => hpc'[h] = "test"
                /\ hpc[h] = "test" => hpc'[h] = "exited"]_vars

\* C28 witness: the teardown of a Thread object destroyed a computation
\* that was still queued, after another one had been resumed from the same
\* queue and had finished.
C28_Witness ==
    \E h \in Hosts, c, d \in Coros :
        /\ ~alive[h]
        /\ frame[c] = "destroyed"
        /\ c \in Range(hpushed[h]) /\ c \notin Range(hpopped[h])
        /\ frame[d] = "finished"
        /\ stopReq[h] /\ hpc[h] = "exited"
        /\ ~ub

(***************************************************************************)
(* Coroutine hand-off: one resumption per await.                           *)
(***************************************************************************)
\* the threads that hold the popped handle of c and resume it or run its body
Resuming(c) == {t \in Hosts : hcur[t] = c /\ hpc[t] \in {"resume", "body"}}

\* C31: a suspended computation is resumed at most once per await and its
\* body never runs on two threads at once: every handle pushed onto a queue
\* is popped at most once, by the thread of that queue; each step of f runs
\* at most once; at most one thread holds a popped handle of the computation
\* or runs its body, and while it does no live queue holds that handle.
C31_ResumedOncePerAwait ==
    \A c \in Coros :
        /\ \A h \in Hosts : Occurrences(hpopped[h], c) <= Occurrences(hpushed[h], c)
        /\ \A k \in Steps :
              Cardinality({i \in 1..Len(trace) : trace[i][1] = c /\ trace[i][2] = k}) <= 1
        /\ Cardinality(Resuming(c)) <= 1
        /\ frame[c] = "running" => \E t \in Resuming(c) : hpc[t] = "body"
        /\ Resuming(c) # {} => \A h \in Hosts : alive[h] => c \notin Range(m_awaiters[h])

\* C31 witness: thread b runs the second step of f(a, b) while thread a,
\* which pushed the handle, has not yet left the push (its notifyOne is
\* still to come).
C31_Witness ==
    /\ hcur["b"] = 1 /\ hpc["b"] = "body" /\ hstep["b"] = 2
    /\ hcur["a"] = 1 /\ hpc["a"] = "notify"
    /\ hpopped["b"] = <<1>>

(***************************************************************************)
(* Promise pipeline: the state cell outlives the producer's accesses.      *)
(***************************************************************************)
\* sync_wait has left (by return or by rethrow): its local _state is destroyed
StateDestroyed == swpc \in {"returned", "raised"}

\* the spawned thread has made its last access to the cell: _set has
\* released the lock
ProducerDone == tpc = "ended"

\* C32: the producer thread never accesses the state cell after sync_wait
\* has left: when sync_wait has returned (or rethrown) the spawned thread
\* has already emplaced, notified and released the lock; the cell the
\* waiting thread reads is set, the mutex is free, and from then on no step
\* changes the cell, the mutex or the producer's position.
C32_NoAccessAfterReturn ==
    /\ [](StateDestroyed => ProducerDone /\ mtx = "free" /\ DataIsSet(data)
                                         /\ returned = data)
    /\ [](swpc = "read" => ProducerDone /\ DataIsSet(data))
    /\ [][StateDestroyed => UNCHANGED <<data, mtx, tpc, swpc>>]_vars

\* C32 witness: sync_wait returned after being blocked in the wait and
\* woken by the producer's notify_one, which the producer made with the lock
\* still held.
C32_Witness ==
    /\ swpc = "returned"
    /\ ~early
    /\ tpc = "ended"
    /\ returned.index = 2

\* sync_wait returned although it found the cell set on its first check
C32_WitnessEarly ==
    /\ swpc = "returned"
    /\ early
    /\ tpc = "ended"

====
